---- MODULE Spec2Model ----
(***************************************************************************)
(* The documentation content pipeline of the taffy-layout docs site:       *)
(* file discovery, slug derivation, metadata, sidebar construction         *)
(* (features/docs/lib/docs.ts), the table-of-contents extractor, the link  *)
(* rewriter (features/docs/lib/remark-links.ts) and the docs pages.        *)
(* Strings are TLA+ strings handled character by character, paths are      *)
(* POSIX paths relative to <cwd>/taffy-layout.                             *)
(***************************************************************************)
EXTENDS Integers, Sequences, FiniteSets, TLC

VARIABLES
  fs,    \* the content files on disk: path (relative to taffy-layout) -> file
  op,    \* the operation that ran last
  arg,   \* its arguments
  returned    \* what it returned

vars == <<fs, op, arg, returned>>

(***************************************************************************)
(* Optional values (undefined / null in the source).                       *)
(***************************************************************************)
None == <<>>
Some(v) == <<v>>

\* A call that threw instead of returning.
Thrown == <<"throws", "ENOENT">>

(***************************************************************************)
(* JavaScript string primitives.                                           *)
(***************************************************************************)
Char(s, i) == SubSeq(s, i, i)

StartsWith(s, p) == Len(s) >= Len(p) /\ SubSeq(s, 1, Len(p)) = p

EndsWith(s, p) == Len(s) >= Len(p) /\ SubSeq(s, Len(s) - Len(p) + 1, Len(s)) = p

DropFirst(s, n) == SubSeq(s, n + 1, Len(s))

DropLast(s, n) == SubSeq(s, 1, Len(s) - n)

LowerChars == "abcdefghijklmnopqrstuvwxyz"
UpperChars == "ABCDEFGHIJKLMNOPQRSTUVWXYZ"

LowerSet == {Char(LowerChars, i) : i \in 1..Len(LowerChars)}
UpperSet == {Char(UpperChars, i) : i \in 1..Len(UpperChars)}
DigitSet == {"0", "1", "2", "3", "4", "5", "6", "7", "8", "9"}

\* s.indexOf(pattern) counted from 1: the first position at or after from
\* where pattern occurs in s, 0 when there is none.
IndexOf(s, pattern, from) ==
  LET hits == {i \in from..(Len(s) - Len(pattern) + 1) :
                 SubSeq(s, i, i + Len(pattern) - 1) = pattern}
  IN IF hits = {} THEN 0 ELSE CHOOSE i \in hits : \A j \in hits : i <= j

LowerChar(c) == IF c \in UpperSet THEN Char(LowerChars, IndexOf(UpperChars, c, 1)) ELSE c
UpperChar(c) == IF c \in LowerSet THEN Char(UpperChars, IndexOf(LowerChars, c, 1)) ELSE c

\* The regular-expression classes \w and \s.
IsWordChar(c) == c \in LowerSet \cup UpperSet \cup DigitSet \cup {"_"}
IsSpaceChar(c) == c \in {" ", "\t", "\n", "\r"}

\* s.split(sep)
RECURSIVE Split(_, _)
Split(s, sep) ==
  LET i == IndexOf(s, sep, 1)
  IN IF i = 0 THEN <<s>>
     ELSE <<SubSeq(s, 1, i - 1)>> \o Split(DropFirst(s, i + Len(sep) - 1), sep)

\* parts.join(sep)
RECURSIVE Join(_, _)
Join(parts, sep) ==
  IF parts = <<>> THEN ""
  ELSE IF Len(parts) = 1 THEN parts[1]
  ELSE Join(SubSeq(parts, 1, Len(parts) \div 2), sep) \o sep
         \o Join(SubSeq(parts, Len(parts) \div 2 + 1, Len(parts)), sep)

\* s.toLowerCase()
ToLowerCase(s) == Join([i \in 1..Len(s) |-> LowerChar(Char(s, i))], "")

\* array.filter(Boolean) on strings: drops the empty ones.
RECURSIVE FilterNonEmpty(_)
FilterNonEmpty(parts) ==
  IF parts = <<>> THEN <<>>
  ELSE (IF Head(parts) = "" THEN <<>> ELSE <<Head(parts)>>) \o FilterNonEmpty(Tail(parts))

\* s.trim()
RECURSIVE TrimStart(_)
TrimStart(s) == IF s # "" /\ IsSpaceChar(Char(s, 1)) THEN TrimStart(DropFirst(s, 1)) ELSE s

RECURSIVE TrimEnd(_)
TrimEnd(s) == IF s # "" /\ IsSpaceChar(Char(s, Len(s))) THEN TrimEnd(DropLast(s, 1)) ELSE s

Trim(s) == TrimEnd(TrimStart(s))

\* s.replace(/from/g, to) for a literal pattern.
RECURSIVE ReplaceAll(_, _, _)
ReplaceAll(s, from, to) ==
  LET i == IndexOf(s, from, 1)
  IN IF i = 0 THEN s
     ELSE SubSeq(s, 1, i - 1) \o to \o ReplaceAll(DropFirst(s, i + Len(from) - 1), from, to)

\* All the sequences that enumerate the set S once each.
RECURSIVE Perms(_)
Perms(S) ==
  IF S = {} THEN {<<>>}
  ELSE UNION {{<<x>> \o p : p \in Perms(S \ {x})} : x \in S}

SeqToSet(s) == {s[i] : i \in 1..Len(s)}

(***************************************************************************)
(* lib/locales.ts and lib/constants.ts                                     *)
(***************************************************************************)
DEFAULT_LOCALE == "en"

LOCALE_KEYS == <<"en", "zh", "ja">>

Locales == SeqToSet(LOCALE_KEYS)

localeDir(locale) ==
  CASE locale = "en" -> "docs"
    [] locale = "zh" -> "docs/i18n/zh-CN"
    [] locale = "ja" -> "docs/i18n/ja-JP"

localeBasePath(locale) == IF locale = DEFAULT_LOCALE THEN "" ELSE "/" \o locale

isLocale(value) == value \in Locales

DEFAULT_ORDER == 9999

MD_EXTENSIONS == {".md", ".mdx"}

(***************************************************************************)
(* node:path (posix) on the paths the pipeline builds.                     *)
(***************************************************************************)
\* path.join(dir, name) for a plain entry name.
pathJoin(dir, name) == IF dir = "" THEN name ELSE dir \o "/" \o name

\* path.relative(root, p) for p below root.
pathRelative(root, p) ==
  IF p = root THEN ""
  ELSE IF root = "" THEN p
  ELSE DropFirst(p, Len(root) + 1)

\* path.basename(p)
pathBasename(p) == LET parts == Split(p, "/") IN parts[Len(parts)]

\* The segments of a path with "" and "." dropped and ".." resolved;
\* above a root ".." is dropped, elsewhere (allowAboveRoot) it is kept.
RECURSIVE normalizeSegments(_, _, _)
normalizeSegments(segs, acc, allowAboveRoot) ==
  IF segs = <<>> THEN acc
  ELSE LET seg == Head(segs)
           rest == Tail(segs)
       IN IF seg = "" \/ seg = "." THEN normalizeSegments(rest, acc, allowAboveRoot)
          ELSE IF seg = ".."
          THEN IF acc # <<>> /\ acc[Len(acc)] # ".."
               THEN normalizeSegments(rest, SubSeq(acc, 1, Len(acc) - 1), allowAboveRoot)
               ELSE IF allowAboveRoot
               THEN normalizeSegments(rest, Append(acc, ".."), allowAboveRoot)
               ELSE normalizeSegments(rest, acc, allowAboveRoot)
          ELSE normalizeSegments(rest, Append(acc, seg), allowAboveRoot)

\* normalize with ".." kept above the root of an absolute path.
posixNormalizeAbove(p) ==
  IF p = "" THEN "."
  ELSE LET body == Join(normalizeSegments(Split(p, "/"), <<>>, TRUE), "/")
       IN (IF Char(p, 1) = "/" THEN "/" ELSE "") \o body
            \o (IF Char(p, Len(p)) = "/" /\ body # "" THEN "/" ELSE "")

\* path.posix.normalize(p)
posixNormalize(p) ==
  IF p = "" THEN "."
  ELSE LET isAbsolute == Char(p, 1) = "/"
           trailingSeparator == Char(p, Len(p)) = "/"
           body == Join(normalizeSegments(Split(p, "/"), <<>>, ~isAbsolute), "/")
       IN IF body = ""
          THEN IF isAbsolute THEN "/" ELSE IF trailingSeparator THEN "./" ELSE "."
          ELSE (IF isAbsolute THEN "/" ELSE "") \o body
                 \o (IF trailingSeparator THEN "/" ELSE "")

\* path.posix.join(a, b)
posixJoin(a, b) ==
  LET joined == IF a = "" THEN b ELSE IF b = "" THEN a ELSE a \o "/" \o b
  IN IF joined = "" THEN "." ELSE posixNormalize(joined)

\* path.posix.dirname(p): the scan from the end of p for the last separator
\* that follows a name; end is the 0-based index of that separator, -1
\* when there is none.
RECURSIVE dirnameEnd(_, _, _)
dirnameEnd(p, i, matchedSlash) ==
  IF i < 1 THEN -1
  ELSE IF Char(p, i + 1) = "/"
       THEN IF ~matchedSlash THEN i ELSE dirnameEnd(p, i - 1, matchedSlash)
       ELSE dirnameEnd(p, i - 1, FALSE)

posixDirname(p) ==
  IF p = "" THEN "."
  ELSE LET hasRoot == Char(p, 1) = "/"
           end == dirnameEnd(p, Len(p) - 1, TRUE)
       IN IF end = -1 THEN (IF hasRoot THEN "/" ELSE ".")
          ELSE IF hasRoot /\ end = 1 THEN "//"
          ELSE SubSeq(p, 1, end)

(***************************************************************************)
(* features/docs/lib/docs.ts                                               *)
(***************************************************************************)
docsRoot(locale) == localeDir(locale)

\* isIgnoredPath that compares the name of a readme file as it is written.
isIgnoredPathAsWritten(locale, relativePath) ==
  IF \/ relativePath = "readme.md"
     \/ relativePath = "readme.mdx"
     \/ EndsWith(relativePath, "/readme.md")
     \/ EndsWith(relativePath, "/readme.mdx")
  THEN TRUE
  ELSE IF locale = DEFAULT_LOCALE
       THEN StartsWith(relativePath, "i18n/") \/ StartsWith(relativePath, "public/")
       ELSE FALSE

isIgnoredPath(locale, relativePath) ==
  LET normalized == ToLowerCase(relativePath)
  IN IF \/ normalized = "readme.md"
        \/ normalized = "readme.mdx"
        \/ EndsWith(normalized, "/readme.md")
        \/ EndsWith(normalized, "/readme.mdx")
     THEN TRUE
     ELSE IF locale = DEFAULT_LOCALE
          THEN StartsWith(relativePath, "i18n/") \/ StartsWith(relativePath, "public/")
          ELSE FALSE

\* value.replace(/\.(md|mdx)$/i, "")
StripMdExt(s) ==
  LET low == ToLowerCase(s)
  IN IF EndsWith(low, ".md") THEN DropLast(s, 3)
     ELSE IF EndsWith(low, ".mdx") THEN DropLast(s, 4)
     ELSE s

\* slugFromFile that keeps a final "index".
slugFromFileKeepIndex(root, filePath) ==
  FilterNonEmpty(Split(StripMdExt(pathRelative(root, filePath)), "/"))

slugFromFile(root, filePath) ==
  LET rel == pathRelative(root, filePath)
      withoutExt == StripMdExt(rel)
      parts == FilterNonEmpty(Split(withoutExt, "/"))
  IN IF parts # <<>> /\ parts[Len(parts)] = "index"
     THEN SubSeq(parts, 1, Len(parts) - 1)
     ELSE parts

\* value.replace(/\b\w/g, toUpperCase): a word character is capitalized
\* when no word character precedes it.
CapitalizeWords(s) ==
  Join([i \in 1..Len(s) |->
          IF IsWordChar(Char(s, i)) /\ (i = 1 \/ ~IsWordChar(Char(s, i - 1)))
          THEN UpperChar(Char(s, i)) ELSE Char(s, i)], "")

titleFromSlug(slug) ==
  LET fallback == IF Len(slug) > 0 THEN slug[Len(slug)] ELSE "Home"
  IN CapitalizeWords(ReplaceAll(ReplaceAll(fallback, "-", " "), "_", " "))

docHref(locale, slug) ==
  LET base == localeBasePath(locale) \o "/docs"
  IN IF Len(slug) = 0 THEN base ELSE base \o "/" \o Join(slug, "/")

unescapeTitle(value) ==
  ReplaceAll(ReplaceAll(ReplaceAll(ReplaceAll(ReplaceAll(ReplaceAll(ReplaceAll(
    value, "\\<", "<"), "\\>", ">"), "\\[", "["), "\\]", "]"),
    "&lt;", "<"), "&gt;", ">"), "&amp;", "&")

\* The index of the first line terminator of s at or after i, or Len(s) + 1.
LineEnd(s, i) ==
  LET ends == {j \in i..Len(s) : Char(s, j) \in {"\n", "\r"}}
  IN IF ends = {} THEN Len(s) + 1 ELSE CHOOSE j \in ends : \A k \in ends : j <= k

\* The length of the longest prefix of s made of \s characters.
RECURSIVE SpaceRun(_)
SpaceRun(s) == IF s # "" /\ IsSpaceChar(Char(s, 1)) THEN 1 + SpaceRun(DropFirst(s, 1)) ELSE 0

\* /^#\s+(.+)$/m.exec(content)?.[1]?.trim(), "" when there is no match: the
\* scan starts at position i, which is the start of a line.
RECURSIVE extractTitleFrom(_, _)
extractTitleFrom(content, i) ==
  IF i > Len(content) THEN ""
  ELSE LET rest == DropFirst(content, i)
           run == SpaceRun(rest)
           after == DropFirst(rest, run)
           next == LineEnd(content, i) + 1
       IN IF Char(content, i) = "#" /\ run >= 1
          THEN IF after # ""
               THEN Trim(SubSeq(after, 1, LineEnd(after, 1) - 1))
               ELSE ""
          ELSE extractTitleFrom(content, next)

extractTitle(content) == extractTitleFrom(content, 1)

(***************************************************************************)
(* The file system.  fs maps the path of every regular file below          *)
(* <cwd>/taffy-layout to the file; a directory exists when a file lies     *)
(* below it.  A content file is kept as gray-matter parses it: the         *)
(* frontmatter data and the body.                                          *)
(***************************************************************************)
Files == DOMAIN fs

\* fs.readdirSync(current): the names of the entries of directory current.
readdirSync(files, current) ==
  {Split(pathRelative(current, f), "/")[1] : f \in {g \in files : StartsWith(g, current \o "/")}}

isDirectory(files, p) == \E f \in files : StartsWith(f, p \o "/")

isFile(files, p) == p \in files

\* The walk of listDocFiles: readdirSync returns the entries of a directory
\* in an order the platform chooses, so the walk yields one of a set of
\* listings.  walkEntry is the body of the loop for the entry entryPath
\* (named name): what it adds to results, a walk of a subdirectory being one
\* of several.
RECURSIVE walk(_, _, _, _)
walkEntry(files, locale, root, entryPath, name) ==
  LET rel == pathRelative(root, entryPath)
  IN IF isDirectory(files, entryPath)
     THEN IF isIgnoredPath(locale, rel \o "/")
          THEN {<<>>}
          ELSE walk(files, locale, root, entryPath)
     ELSE IF isFile(files, entryPath)
     THEN IF isIgnoredPath(locale, rel)
          THEN {<<>>}
          ELSE IF \E ext \in MD_EXTENSIONS : EndsWith(ToLowerCase(name), ext)
               THEN {<<entryPath>>}
               ELSE {<<>>}
     ELSE {<<>>}

\* The results of the loop when the entries come in the order names, added[n]
\* being what entry n can add.
RECURSIVE walkInOrder(_, _)
walkInOrder(added, names) ==
  IF names = <<>> THEN {<<>>}
  ELSE {a \o b : a \in added[Head(names)], b \in walkInOrder(added, Tail(names))}

walk(files, locale, root, current) ==
  LET entries == readdirSync(files, current)
      added == [name \in entries |->
                  walkEntry(files, locale, root, pathJoin(current, name), name)]
  IN UNION {walkInOrder(added, names) : names \in Perms(entries)}

\* The listing that is empty when the content root is missing.
listDocFilesOrEmpty(files, locale) ==
  IF ~isDirectory(files, docsRoot(locale)) THEN {<<>>}
  ELSE walk(files, locale, docsRoot(locale), docsRoot(locale))

\* The listings listDocFiles(locale) can return; readdirSync throws when the
\* content root is not a directory, and nothing catches it.
listDocFiles(files, locale) ==
  IF ~isDirectory(files, docsRoot(locale)) THEN {Thrown}
  ELSE walk(files, locale, docsRoot(locale), docsRoot(locale))

getAllDocSlugs(locale, listing) ==
  IF listing = Thrown THEN Thrown
  ELSE [i \in 1..Len(listing) |-> slugFromFile(docsRoot(locale), listing[i])]

isIndexFile(filePath) == StartsWith(ToLowerCase(pathBasename(filePath)), "index.")

\* a || b on strings
OrElse(a, b) == IF a # "" THEN a ELSE b

changelogTitle(locale) ==
  CASE locale = "en" -> "Changelog"
    [] locale = "zh" -> "Gengxin Rizhi"
    [] locale = "ja" -> "Henkou Rogu"

\* matter(source) throws (the YAML parser's exception) when the frontmatter
\* block of the file cannot be parsed; such a file is kept as its raw text.
matterThrows(file) == "data" \notin DOMAIN file

\* readFileSyncSafe + matter: disk[filePath] is the parsed file.
docMeta(disk, locale, filePath) ==
  LET file == disk[filePath]
      data == file.data
      slug == slugFromFile(docsRoot(locale), filePath)
      isIndex == isIndexFile(filePath)
      titleRaw == OrElse(data.title, OrElse(data.sidebar_label,
                    OrElse(extractTitle(file.content), titleFromSlug(slug))))
      title == unescapeTitle(titleRaw)
      order == IF data.sidebar_position # None THEN data.sidebar_position[1] ELSE DEFAULT_ORDER
  IN IF Len(slug) = 1 /\ slug[1] = "changelog"
     THEN [title |-> changelogTitle(locale), slug |-> slug, order |-> order, isIndex |-> isIndex]
     ELSE [title |-> title, slug |-> slug, order |-> order, isIndex |-> isIndex]

getDocMetaList(disk, locale, listing) ==
  [i \in 1..Len(listing) |-> docMeta(disk, locale, listing[i])]

\* getDocMetaList(locale) rejects: the listing threw, or matter threw on one
\* of the listed files.
metaListThrows(disk, listing) ==
  listing = Thrown \/ \E i \in 1..Len(listing) : matterThrows(disk[listing[i]])

(***************************************************************************)
(* String.prototype.localeCompare under the root collation, on the         *)
(* characters titles are made of: punctuation before digits before         *)
(* letters, letters compared without case first, then lower case before    *)
(* upper case.                                                             *)
(***************************************************************************)
CollationChars == " _-,.:/<>[]&#0123456789abcdefghijklmnopqrstuvwxyz"

CharRank(c) == IndexOf(CollationChars, LowerChar(c), 1)

\* -1, 0 or 1: a against b by primary weights.
RECURSIVE comparePrimary(_, _)
comparePrimary(a, b) ==
  IF a = "" /\ b = "" THEN 0
  ELSE IF a = "" THEN -1
  ELSE IF b = "" THEN 1
  ELSE IF CharRank(Char(a, 1)) < CharRank(Char(b, 1)) THEN -1
  ELSE IF CharRank(Char(a, 1)) > CharRank(Char(b, 1)) THEN 1
  ELSE comparePrimary(DropFirst(a, 1), DropFirst(b, 1))

\* -1, 0 or 1: a against b by case, for strings equal by primary weights.
RECURSIVE compareCase(_, _)
compareCase(a, b) ==
  IF a = "" \/ b = "" THEN 0
  ELSE IF Char(a, 1) = Char(b, 1) THEN compareCase(DropFirst(a, 1), DropFirst(b, 1))
  ELSE IF Char(a, 1) \in LowerSet THEN -1
  ELSE 1

localeCompare(a, b) ==
  LET primary == comparePrimary(a, b)
  IN IF primary # 0 THEN primary ELSE compareCase(a, b)

(***************************************************************************)
(* getSidebar.  A NavItem is a record: title, href (optional), order,      *)
(* children (optional list of NavItem), segment (optional).                *)
(***************************************************************************)
NavItem(title, href, order, children, segment) ==
  [title |-> title, href |-> href, order |-> order, children |-> children, segment |-> segment]

\* current.children after "if (!current.children) current.children = []"
childrenOf(item) == IF item.children = None THEN <<>> ELSE item.children[1]

\* current.children.find((child) => child.segment === segment): the index
\* of the first match, 0 when there is none.
findSection(children, segment) ==
  IF \E i \in 1..Len(children) : children[i].segment = Some(segment)
  THEN CHOOSE i \in 1..Len(children) :
         /\ children[i].segment = Some(segment)
         /\ \A j \in 1..(i - 1) : children[j].segment # Some(segment)
  ELSE 0

\* insertDoc without the push of the leaf of a document that is no index.
RECURSIVE insertDocSectionsOnly(_, _, _, _)
insertDocSectionsOnly(current, segs, doc, locale) ==
  IF segs = <<>>
  THEN IF doc.isIndex
       THEN [current EXCEPT !.title = doc.title,
                            !.href = Some(docHref(locale, doc.slug)),
                            !.order = doc.order]
       ELSE current
  ELSE LET children == childrenOf(current)
           found == findSection(children, Head(segs))
           withSection ==
             IF found = 0
             THEN Append(children,
                         NavItem(titleFromSlug(<<Head(segs)>>), None, DEFAULT_ORDER,
                                 Some(<<>>), Some(Head(segs))))
             ELSE children
           at == IF found = 0 THEN Len(withSection) ELSE found
       IN [current EXCEPT !.children =
             Some([withSection EXCEPT
                     ![at] = insertDocSectionsOnly(withSection[at], Tail(segs), doc, locale)])]

\* One document of the loop of getSidebar, from the node current on: segs
\* are the slug segments the forEach has still to walk (all of the slug for
\* an index document, all but the last otherwise).
RECURSIVE insertDoc(_, _, _, _)
insertDoc(current, segs, doc, locale) ==
  IF segs = <<>>
  THEN IF doc.isIndex
       THEN [current EXCEPT !.title = doc.title,
                            !.href = Some(docHref(locale, doc.slug)),
                            !.order = doc.order]
       ELSE [current EXCEPT !.children =
               Some(Append(childrenOf(current),
                           NavItem(doc.title, Some(docHref(locale, doc.slug)), doc.order,
                                   None,
                                   IF Len(doc.slug) = 0 THEN None
                                   ELSE Some(doc.slug[Len(doc.slug)]))))]
  ELSE LET children == childrenOf(current)
           found == findSection(children, Head(segs))
           withSection ==
             IF found = 0
             THEN Append(children,
                         NavItem(titleFromSlug(<<Head(segs)>>), None, DEFAULT_ORDER,
                                 Some(<<>>), Some(Head(segs))))
             ELSE children
           at == IF found = 0 THEN Len(withSection) ELSE found
       IN [current EXCEPT !.children =
             Some([withSection EXCEPT ![at] = insertDoc(withSection[at], Tail(segs), doc, locale)])]

\* The sort comparator of sortTree.
compareNav(a, b) ==
  IF a.order # b.order THEN a.order - b.order ELSE localeCompare(a.title, b.title)

\* Array.prototype.sort is stable: x goes after every element not above it.
RECURSIVE insertSorted(_, _)
insertSorted(sorted, x) ==
  IF sorted = <<>> THEN <<x>>
  ELSE IF compareNav(Head(sorted), x) <= 0
       THEN <<Head(sorted)>> \o insertSorted(Tail(sorted), x)
       ELSE <<x>> \o sorted

RECURSIVE sortItems(_)
sortItems(items) ==
  IF items = <<>> THEN <<>>
  ELSE insertSorted(sortItems(SubSeq(items, 1, Len(items) - 1)), items[Len(items)])

\* sortTree without the recursion into the children.
sortTreeShallow(items) == sortItems(items)

RECURSIVE sortTree(_)
sortTree(items) ==
  LET sorted == sortItems(items)
  IN [i \in 1..Len(sorted) |->
        IF sorted[i].children = None
        THEN sorted[i]
        ELSE [sorted[i] EXCEPT !.children = Some(sortTree(sorted[i].children[1]))]]

homeItem(doc, locale) ==
  NavItem(doc.title,
          Some(IF locale = DEFAULT_LOCALE THEN "/" ELSE localeBasePath(locale) \o "/"),
          doc.order, None, Some(""))

\* The loop over docs: the state is the root node and home.
RECURSIVE sidebarLoop(_, _, _, _)
sidebarLoop(docs, root, home, locale) ==
  IF docs = <<>> THEN [root |-> root, home |-> home]
  ELSE LET doc == Head(docs)
       IN IF Len(doc.slug) > 0 /\ doc.slug[1] = "intro"
          THEN sidebarLoop(Tail(docs), root, home, locale)
          ELSE IF Len(doc.slug) = 0 /\ doc.isIndex
          THEN sidebarLoop(Tail(docs), root, Some(homeItem(doc, locale)), locale)
          ELSE LET segs == IF doc.isIndex THEN doc.slug
                           ELSE SubSeq(doc.slug, 1, Len(doc.slug) - 1)
               IN sidebarLoop(Tail(docs), insertDoc(root, segs, doc, locale), home, locale)

\* getSidebar with the home node sorted among the top-level nodes.
getSidebarHomeSorted(locale, docs) ==
  LET built == sidebarLoop(docs, NavItem("root", None, 0, Some(<<>>), None), None, locale)
  IN sortTree((IF built.home # None THEN <<built.home[1]>> ELSE <<>>) \o childrenOf(built.root))

getSidebar(locale, docs) ==
  LET built == sidebarLoop(docs, NavItem("root", None, 0, Some(<<>>), None), None, locale)
      navItems == sortTree(childrenOf(built.root))
  IN IF built.home # None THEN <<built.home[1]>> \o navItems ELSE navItems

(***************************************************************************)
(* Specification Spec: the sidebar pipeline over a content tree.           *)
(* Init draws a content tree of one to MaxFiles files and mounts it        *)
(* under the content root of every locale (each translation mirrors the    *)
(* tree); the actions are the calls of getAllDocSlugs and getSidebar.      *)
(***************************************************************************)
MaxFiles == 3

\* Paths relative to a locale's content root.
NavRelPaths ==
  {"index.md", "a.md", "a.mdx", "b.md", "intro.md", "a/index.md", "a/a.md", "a/b.md"}

\* A parsed content file.
File(title, label, position, content) ==
  [data |-> [title |-> title, sidebar_label |-> label, sidebar_position |-> position],
   content |-> content]

NavFiles == {File(t, "", p, "") : t \in {"", "Apple"}, p \in {None, Some(1)}}

NavTrees ==
  UNION {[S -> NavFiles] :
           S \in {T \in SUBSET NavRelPaths : T # {} /\ Cardinality(T) <= MaxFiles}}

\* The tree mounted under the content root of each locale of ls.
Mount(tree, ls) ==
  LET at == {<<l, rel>> : l \in ls, rel \in DOMAIN tree}
      paths == {pathJoin(localeDir(x[1]), x[2]) : x \in at}
      source(p) == CHOOSE x \in at : pathJoin(localeDir(x[1]), x[2]) = p
  IN [p \in paths |-> tree[source(p)[2]]]

Init ==
  /\ fs \in {Mount(tree, Locales) : tree \in NavTrees}
  /\ op = "init"
  /\ arg = None
  /\ returned = None

GetAllDocSlugs ==
  /\ op = "init"
  /\ \E locale \in Locales :
       \E listing \in listDocFiles(Files, locale) :
         /\ op' = "getAllDocSlugs"
         /\ arg' = [locale |-> locale]
         /\ returned' = getAllDocSlugs(locale, listing)
         /\ UNCHANGED fs

GetSidebar ==
  /\ op = "init"
  /\ \E locale \in Locales :
       \E listing \in listDocFiles(Files, locale) :
         /\ op' = "getSidebar"
         /\ arg' = [locale |-> locale]
         /\ returned' = IF metaListThrows(fs, listing) THEN Thrown
                    ELSE getSidebar(locale, getDocMetaList(fs, locale, listing))
         /\ UNCHANGED fs

Next == GetAllDocSlugs \/ GetSidebar

Spec == Init /\ [][Next]_vars

(***************************************************************************)
(* What the claims about the sidebar pipeline speak of.                    *)
(***************************************************************************)
\* The documents of a locale, in one of the listings.
docsOf(locale) ==
  {docMeta(fs, locale, f) : f \in UNION {SeqToSet(l) : l \in listDocFiles(Files, locale)}}

\* The list without the synthetic home node (the node of segment "").
withoutHome(items) ==
  IF items # <<>> /\ items[1].segment = Some("") THEN Tail(items) ELSE items

\* Every sibling list of the tree: items, and the children lists below.
RECURSIVE siblingLists(_)
siblingLists(items) ==
  {items} \cup UNION {IF items[i].children = None THEN {}
                      ELSE siblingLists(items[i].children[1]) : i \in 1..Len(items)}

\* Every node of the tree with the path of segments that leads to it.
RECURSIVE navNodes(_, _)
navNodes(items, prefix) ==
  UNION {LET path == prefix \o items[i].segment
         IN {[path |-> path, node |-> items[i]]}
              \cup (IF items[i].children = None THEN {}
                    ELSE navNodes(items[i].children[1], path)) : i \in 1..Len(items)}

isSortedList(items) ==
  \A i, j \in 1..Len(items) :
    i < j => \/ items[i].order < items[j].order
             \/ /\ items[i].order = items[j].order
                /\ localeCompare(items[i].title, items[j].title) <= 0

\* C1: within one locale no two listed content files produce the same slug:
\* getAllDocSlugs never contains the same slug twice.
C1_SlugsUnique ==
  op = "getAllDocSlugs" => \A i, j \in 1..Len(returned) : i # j => returned[i] # returned[j]

slugsDistinct(locale) ==
  \A l \in listDocFiles(Files, locale) :
    \A i, j \in 1..Len(l) :
      i # j => slugFromFile(docsRoot(locale), l[i]) # slugFromFile(docsRoot(locale), l[j])

\* C3: when the slugs of a locale are pairwise distinct, getSidebar returns
\* the same tree whatever listing listDocFiles enumerated.
C3_SidebarOrderIndependent ==
  (op = "getSidebar" /\ slugsDistinct(arg.locale)) =>
    \A l \in listDocFiles(Files, arg.locale) :
      getSidebar(arg.locale, getDocMetaList(fs, arg.locale, l)) = returned

\* C4: the node of a directory (a node with a children list, at the path of
\* segments d) has its title, href and order from the index document of d
\* alone; without one it keeps the humanized segment, no href and the
\* default order.
C4_SectionClaimedByIndexOnly ==
  op = "getSidebar" =>
    \A n \in navNodes(withoutHome(returned), <<>>) :
      n.node.children # None =>
        LET claims == {d \in docsOf(arg.locale) : d.isIndex /\ d.slug = n.path}
        IN IF claims = {}
           THEN /\ n.node.title = titleFromSlug(n.path)
                /\ n.node.href = None
                /\ n.node.order = DEFAULT_ORDER
           ELSE \E d \in claims :
                  /\ n.node.title = d.title
                  /\ n.node.href = Some(docHref(arg.locale, d.slug))
                  /\ n.node.order = d.order

\* C5: every sibling list of the sidebar, the top level taken without the
\* home node, is sorted ascending by order, ties by title.
C5_SiblingsSorted ==
  op = "getSidebar" => \A items \in siblingLists(withoutHome(returned)) : isSortedList(items)

\* A sidebar with a children list of two nodes of different order next to a
\* second top-level node.
C5_Witness ==
  /\ op = "getSidebar"
  /\ Len(withoutHome(returned)) >= 2
  /\ \E items \in siblingLists(withoutHome(returned)) \ {withoutHome(returned)} :
       /\ Len(items) >= 2
       /\ items[1].order # items[2].order
  /\ \E i \in 1..Len(returned) : \E j \in 1..Len(returned) :
       /\ i < j
       /\ returned[i].order = returned[j].order
       /\ returned[i].title # returned[j].title

\* C6: when the locale has a root index document, the home node built from
\* it is the first element of the sidebar.
C6_HomeFirst ==
  op = "getSidebar" =>
    LET homes == {d \in docsOf(arg.locale) : d.isIndex /\ d.slug = <<>>}
    IN homes # {} =>
         /\ returned # <<>>
         /\ \E d \in homes : returned[1] = homeItem(d, arg.locale)

\* A home node of default order in front of a node of order 1.
C6_Witness ==
  /\ op = "getSidebar"
  /\ Len(returned) >= 2
  /\ returned[1].segment = Some("")
  /\ returned[1].order = DEFAULT_ORDER
  /\ returned[2].order = 1

\* C17: every node of the tree getSidebar returns, at every depth, has an
\* href or at least one child.
C17_NoEmptyNode ==
  op = "getSidebar" =>
    \A n \in navNodes(returned, <<>>) :
      \/ n.node.href # None
      \/ (n.node.children # None /\ n.node.children[1] # <<>>)

\* A section without an index file: no href, and the documents below it.
C17_Witness ==
  /\ op = "getSidebar"
  /\ \E n \in navNodes(returned, <<>>) :
       /\ n.node.href = None
       /\ n.node.children # None
       /\ Len(n.node.children[1]) > 0

(***************************************************************************)
(* features/docs/lib/remark-links.ts                                       *)
(***************************************************************************)
isExternal(url) ==
  \/ StartsWith(url, "http://")
  \/ StartsWith(url, "https://")
  \/ StartsWith(url, "mailto:")
  \/ StartsWith(url, "tel:")
  \/ StartsWith(url, "#")
  \/ StartsWith(url, "/")

\* currentDir of the parent directory only, whatever isIndex is.
currentDirParent(options) == posixDirname("/" \o Join(options.slug, "/"))

\* The directory links are resolved against (docPath starts with "/", so
\* the "/" alternatives of the source are never taken).
currentDirOf(options) ==
  LET docPath == "/" \o Join(options.slug, "/")
  IN IF options.isIndex THEN docPath ELSE posixDirname(docPath)

\* The visitor of one link node: the url the node has afterwards.
rewriteLink(options, url) ==
  LET basePath == options.basePath
      currentDir == currentDirOf(options)
      resolved == posixNormalize(posixJoin(currentDir, url))
      stripped == StripMdExt(resolved)
      clean == IF EndsWith(stripped, "/index") THEN DropLast(stripped, 6) ELSE stripped
      suffix == IF StartsWith(clean, "/") THEN DropFirst(clean, 1) ELSE clean
  IN IF url = "" THEN url
     ELSE IF isExternal(url) THEN url
     ELSE IF suffix # "" THEN basePath \o "/" \o suffix
     ELSE IF basePath # "" THEN basePath ELSE "/"

\* The transformer: every link node of the tree visited in order.
remarkRewriteLinks(options, tree) ==
  [i \in 1..Len(tree) |-> [url |-> rewriteLink(options, tree[i].url)]]

(***************************************************************************)
(* The link rewriter applied to the links of a document.  SpecLinks runs   *)
(* the transformer once on a tree of at most MaxLinks link nodes.          *)
(***************************************************************************)
MaxLinks == 2

LinkUrls ==
  {"", "../intro.md", "./advanced.md", "advanced.mdx", "../../../x.md", "..",
   "index.md", "sub/index.md", "sub/", "API.MD", "...md", "a.md#top", "x",
   "https://example.com", "http://example.com/a.md", "mailto:a@b.c", "tel:1",
   "#anchor", "/abs/x.md", "ftp://example.com/f.md"}

LinkTrees ==
  UNION {[1..n -> {[url |-> u] : u \in LinkUrls}] : n \in 1..MaxLinks}

InitLinks ==
  /\ fs = <<>>
  /\ op = "init"
  /\ arg \in {[options |-> [basePath |-> basePath, slug |-> slug, isIndex |-> isIndex],
               tree |-> tree] :
                basePath \in {"", "/docs", "/zh/docs"},
                slug \in {<<>>, <<"intro">>, <<"guides">>, <<"guides", "setup">>},
                isIndex \in BOOLEAN, tree \in LinkTrees}
  /\ returned = None

RemarkRewriteLinks ==
  /\ op = "init"
  /\ op' = "remarkRewriteLinks"
  /\ returned' = remarkRewriteLinks(arg.options, arg.tree)
  /\ UNCHANGED <<fs, arg>>

NextLinks == RemarkRewriteLinks

SpecLinks == InitLinks /\ [][NextLinks]_vars

(***************************************************************************)
(* What the specification says of a link, independently of the code.       *)
(***************************************************************************)
\* url starts with a URL scheme: a letter, then letters, digits, "+", "-",
\* ".", then ":".
startsWithScheme(url) ==
  \E i \in 2..Len(url) :
    /\ Char(url, i) = ":"
    /\ Char(url, 1) \in LowerSet \cup UpperSet
    /\ \A j \in 2..(i - 1) :
         Char(url, j) \in LowerSet \cup UpperSet \cup DigitSet \cup {"+", "-", "."}

\* External as the specification defines it.
specExternal(url) ==
  \/ startsWithScheme(url)
  \/ StartsWith(url, "mailto:")
  \/ StartsWith(url, "tel:")
  \/ StartsWith(url, "#")
  \/ StartsWith(url, "/")

\* Segments with "." and "" dropped and ".." taking back the segment before
\* it, never above the root.
RECURSIVE dotResolved(_, _)
dotResolved(segs, acc) ==
  IF segs = <<>> THEN acc
  ELSE IF Head(segs) \in {"", "."} THEN dotResolved(Tail(segs), acc)
  ELSE IF Head(segs) = ".."
       THEN dotResolved(Tail(segs), IF acc = <<>> THEN acc ELSE SubSeq(acc, 1, Len(acc) - 1))
  ELSE dotResolved(Tail(segs), Append(acc, Head(segs)))

\* The URL the specification gives a relative target: basePath + "/" + P.
\* anyCase tells whether the Markdown extension is removed in any letter
\* case or only as .md / .mdx.
specUrl(options, url, anyCase) ==
  LET slug == options.slug
      dirSegs == IF options.isIndex \/ slug = <<>> THEN slug
                 ELSE SubSeq(slug, 1, Len(slug) - 1)
      names == dotResolved(dirSegs \o Split(url, "/"), <<>>)
      joined == "/" \o Join(names, "/")
                  \o (IF EndsWith(url, "/") /\ names # <<>> THEN "/" ELSE "")
      noExt == IF anyCase THEN StripMdExt(joined)
               ELSE IF EndsWith(joined, ".md") THEN DropLast(joined, 3)
               ELSE IF EndsWith(joined, ".mdx") THEN DropLast(joined, 4)
               ELSE joined
      noIndex == IF EndsWith(noExt, "/index") THEN DropLast(noExt, 6) ELSE noExt
      P == DropFirst(noIndex, 1)
  IN IF P = "" THEN (IF options.basePath = "" THEN "/" ELSE options.basePath)
     ELSE options.basePath \o "/" \o P

linksRan == op = "remarkRewriteLinks"

\* C8 (as amended): every link whose URL is relative and not empty gets the
\* URL basePath + "/" + P, P being the target joined onto the current
\* directory, "." and ".." normalized, a trailing .md / .mdx in any letter
\* case removed and a trailing /index removed; basePath (or "/") when P is
\* empty.  A link whose URL is empty is left as it is.
C8_RelativeRewritten ==
  linksRan =>
    \A i \in 1..Len(returned) :
      LET url == arg.tree[i].url
      IN /\ (url # "" /\ ~specExternal(url)) => returned[i].url = specUrl(arg.options, url, TRUE)
         /\ url = "" => returned[i].url = ""

\* C8 as stated: every relative URL, the empty one included, is rewritten
\* and the extension removed is .md / .mdx as written.
C8_AsStated ==
  linksRan =>
    \A i \in 1..Len(returned) :
      LET url == arg.tree[i].url
      IN ~specExternal(url) => returned[i].url = specUrl(arg.options, url, FALSE)

\* The example of the specification: slug [guides, setup], not an index,
\* base path /docs.
C8_Witness ==
  /\ linksRan
  /\ arg.options = [basePath |-> "/docs", slug |-> <<"guides", "setup">>, isIndex |-> FALSE]
  /\ arg.tree = <<[url |-> "../intro.md"], [url |-> "./advanced.md"]>>
  /\ returned = <<[url |-> "/docs/intro"], [url |-> "/docs/guides/advanced"]>>

\* The node was rewritten by the transformer.
written(i) == arg.tree[i].url # "" /\ ~isExternal(arg.tree[i].url)

C10_ExternalUnchanged ==
  linksRan =>
    \A i \in 1..Len(returned) :
      specExternal(arg.tree[i].url) => returned[i].url = arg.tree[i].url

(***************************************************************************)
(* extractToc (features/docs/lib/docs.ts) and the GithubSlugger it uses.   *)
(***************************************************************************)
\* github-slugger's slug of a text before collisions are resolved: lower
\* case, every character other than a letter, a digit, "_", "-" and " "
\* removed, each " " replaced by "-".
slugBase(text) ==
  Join([i \in 1..Len(text) |->
          LET c == LowerChar(Char(text, i))
          IN IF c = " " THEN "-" ELSE IF IsWordChar(c) \/ c = "-" THEN c ELSE ""], "")

\* slugger.slug without the loop: one increment of the counter, whatever
\* the suffixed slug collides with.
sluggerSlugOnce(occurrences, text) ==
  LET original == slugBase(text)
      bumped == [occurrences EXCEPT ![original] = @ + 1]
      result == original \o "-" \o ToString(bumped[original])
  IN IF original \in DOMAIN occurrences
     THEN [id |-> result,
           occurrences |-> [k \in DOMAIN bumped \cup {result} |->
                              IF k = result THEN 0 ELSE bumped[k]]]
     ELSE [id |-> original,
           occurrences |-> [k \in DOMAIN occurrences \cup {original} |->
                              IF k = original THEN 0 ELSE occurrences[k]]]

\* The while loop of slugger.slug: as long as result is taken, the counter
\* of the original slug is incremented and appended.
RECURSIVE sluggerLoop(_, _, _)
sluggerLoop(occurrences, original, result) ==
  IF result \in DOMAIN occurrences
  THEN LET bumped == [occurrences EXCEPT ![original] = @ + 1]
       IN sluggerLoop(bumped, original, original \o "-" \o ToString(bumped[original]))
  ELSE [id |-> result,
        occurrences |-> [k \in DOMAIN occurrences \cup {result} |->
                           IF k = result THEN 0 ELSE occurrences[k]]]

\* slugger.slug(text): the id and the slugger's occurrences afterwards.
sluggerSlug(occurrences, text) ==
  sluggerLoop(occurrences, slugBase(text), slugBase(text))

\* content.split(/\r?\n/)
splitLines(content) ==
  LET parts == Split(content, "\n")
  IN [i \in 1..Len(parts) |->
        IF i < Len(parts) /\ EndsWith(parts[i], "\r") THEN DropLast(parts[i], 1)
        ELSE parts[i]]

\* /^(#{2,3})\s+(.+)$/.exec(line): None, or the level and match[2].
headingMatch(line) ==
  LET level == IF StartsWith(line, "###") THEN 3 ELSE IF StartsWith(line, "##") THEN 2 ELSE 0
      rest == DropFirst(line, level)
      run == SpaceRun(rest)
      text == IF run < Len(rest) THEN DropFirst(rest, run)
              ELSE IF run >= 2 THEN Char(rest, Len(rest)) ELSE ""
  IN IF level = 0 \/ run = 0 \/ text = "" THEN None
     ELSE IF \E i \in 1..Len(text) : Char(text, i) \in {"\n", "\r"} THEN None
     ELSE Some([level |-> level, text |-> text])

\* match[2].replace(/\s+#$/, "").trim()
headingText(raw) ==
  LET body == DropLast(raw, 1)
  IN Trim(IF EndsWith(raw, "#") /\ body # "" /\ IsSpaceChar(Char(body, Len(body)))
          THEN TrimEnd(body) ELSE raw)

\* The loop of extractToc over the lines from line i on; tocPush is the
\* body of the loop for a heading of text text, tocStep for a line whose
\* match is match.
RECURSIVE tocLoop(_, _, _, _)
tocPush(lines, i, items, level, text, slugged) ==
  tocLoop(lines, i + 1, slugged.occurrences,
          Append(items, [id |-> slugged.id, text |-> text, level |-> level]))

tocStep(lines, i, occurrences, items, match) ==
  IF match = None THEN tocLoop(lines, i + 1, occurrences, items)
  ELSE tocPush(lines, i, items, match[1].level,
               unescapeTitle(headingText(match[1].text)),
               sluggerSlug(occurrences, unescapeTitle(headingText(match[1].text))))

tocLoop(lines, i, occurrences, items) ==
  IF i > Len(lines) THEN items
  ELSE tocStep(lines, i, occurrences, items, headingMatch(lines[i]))

extractToc(content) == tocLoop(splitLines(content), 1, <<>>, <<>>)

(***************************************************************************)
(* renderMdx (features/docs/lib/mdx.tsx): compileMDX parses the source as  *)
(* Markdown and rehype-slug gives every heading element an id.             *)
(***************************************************************************)
\* The ATX heading the Markdown parser reads from a line outside a code
\* block: at most three spaces, one to six "#", then white space or the end
\* of the line; the text is trimmed and a closing run of "#" is dropped.
mdHeadingAt(line) ==
  LET s == DropFirst(line, SpaceRun(line))
      hashes == CHOOSE k \in 0..Len(s) :
                  /\ \A j \in 1..k : Char(s, j) = "#"
                  /\ k < Len(s) => Char(s, k + 1) # "#"
      rest == Trim(DropFirst(s, hashes))
      closing == CHOOSE k \in 0..Len(rest) :
                   /\ \A j \in 1..k : Char(rest, Len(rest) - j + 1) = "#"
                   /\ k < Len(rest) => Char(rest, Len(rest) - k) # "#"
      text == IF closing > 0 /\ (closing = Len(rest)
                                   \/ IsSpaceChar(Char(rest, Len(rest) - closing)))
              THEN Trim(DropLast(rest, closing)) ELSE rest
  IN IF SpaceRun(line) > 3 \/ hashes = 0 \/ hashes > 6 THEN None
     ELSE IF hashes < Len(s) /\ ~IsSpaceChar(Char(s, hashes + 1)) THEN None
     ELSE Some([level |-> hashes, text |-> text])

\* The headings of the lines from line i on, in source order; a line that
\* starts with a code fence opens or closes a code block, and the lines of a
\* code block are code.  Of the two fences of Markdown, three backticks and
\* three tildes, the documents of the model use the tildes.
RECURSIVE mdHeadingsFrom(_, _, _, _)
mdHeadingsFrom(lines, i, inFence, acc) ==
  IF i > Len(lines) THEN acc
  ELSE IF StartsWith(TrimStart(lines[i]), "~~~")
       THEN mdHeadingsFrom(lines, i + 1, ~inFence, acc)
       ELSE IF inFence \/ mdHeadingAt(lines[i]) = None
            THEN mdHeadingsFrom(lines, i + 1, inFence, acc)
            ELSE mdHeadingsFrom(lines, i + 1, inFence, Append(acc, mdHeadingAt(lines[i])[1]))

\* rehype-slug: every heading element, of any level, gets the id one
\* slugger makes of its text, in document order.
RECURSIVE rehypeSlug(_, _, _, _)
rehypeSlug(headings, k, occurrences, acc) ==
  IF k > Len(headings) THEN acc
  ELSE LET slugged == sluggerSlug(occurrences, headings[k].text)
       IN rehypeSlug(headings, k + 1, slugged.occurrences,
            Append(acc, [level |-> headings[k].level, text |-> headings[k].text,
                         id |-> slugged.id]))

\* The headings renderMdx renders for source, with their ids.
renderedHeadings(source) == rehypeSlug(mdHeadingsFrom(splitLines(source), 1, FALSE, <<>>), 1, <<>>, <<>>)

(***************************************************************************)
(* SpecToc applies extractToc to a document body of at most MaxLines lines.*)
(***************************************************************************)
MaxLines == 3

TocLines ==
  {"## Setup", "## Setup 1", "### Setup", "## setup-1", "## Setup #", "## Set up!",
   "# Title", "#### Deep", "##  ", "plain text", "##No space", "# Setup"}

TocBodies ==
  LET lineSeqs == UNION {[1..n -> TocLines] : n \in 1..MaxLines}
  IN {Join(ls, e) : ls \in lineSeqs, e \in {"\n", "\r\n"}}

InitToc ==
  /\ fs = <<>>
  /\ op = "init"
  /\ arg \in {[content |-> c] : c \in TocBodies}
  /\ returned = None

ExtractToc ==
  /\ op = "init"
  /\ op' = "extractToc"
  /\ returned' = extractToc(arg.content)
  /\ UNCHANGED <<fs, arg>>

NextToc == ExtractToc

SpecToc == InitToc /\ [][NextToc]_vars

\* extractToc has run.
tocRan == op = "extractToc"

\* The suffixes n for which id is base-n.
suffixOf(id, base) ==
  {n \in 1..MaxLines : id = base \o "-" \o ToString(n)}

\* C7: the ids of the items extractToc returns are pairwise distinct, and
\* a heading text that repeats receives its base slug with a numeric suffix
\* that grows in source order.
C7_TocIdsDistinct ==
  tocRan =>
    /\ \A i, j \in 1..Len(returned) : i # j => returned[i].id # returned[j].id
    /\ \A i, j \in 1..Len(returned) :
         (i < j /\ returned[i].text = returned[j].text) =>
           /\ suffixOf(returned[j].id, slugBase(returned[j].text)) # {}
           /\ \A n \in suffixOf(returned[i].id, slugBase(returned[i].text)) :
                \A m \in suffixOf(returned[j].id, slugBase(returned[j].text)) : n < m

\* Two "## Setup" headings give setup, then setup-1.
C7_Witness ==
  /\ tocRan
  /\ arg.content = "## Setup\n## Setup"
  /\ returned = <<[id |-> "setup", text |-> "Setup", level |-> 2],
             [id |-> "setup-1", text |-> "Setup", level |-> 2]>>

\* The level-2 and level-3 headings renderMdx renders for the content
\* extractToc was applied to.
renderedTocHeadings == SelectSeq(renderedHeadings(arg.content), LAMBDA h : h.level \in {2, 3})

\* C26: the items of the table of contents are the level-2 and level-3
\* headings of the rendered page, one for one in source order, and the id
\* of every item is the id the rendered heading carries.
C26_TocIdsAreRenderedIds ==
  tocRan =>
    /\ Len(returned) = Len(renderedTocHeadings)
    /\ \A i \in 1..Len(returned) : returned[i].id = renderedTocHeadings[i].id

(***************************************************************************)
(* getDoc (features/docs/lib/docs.ts): path resolution, the changelog,     *)
(* INCLUDE directives.                                                     *)
(***************************************************************************)
\* The text of a file on disk: the frontmatter block gray-matter parses
\* into file.data, then the body.
sourceOf(file) ==
  IF matterThrows(file) THEN file.raw ELSE
  LET data == file.data
      block == (IF data.title # "" THEN "title: " \o data.title \o "\n" ELSE "")
                 \o (IF data.sidebar_label # ""
                     THEN "sidebar_label: " \o data.sidebar_label \o "\n" ELSE "")
                 \o (IF data.sidebar_position # None
                     THEN "sidebar_position: " \o ToString(data.sidebar_position[1]) \o "\n"
                     ELSE "")
  IN IF block = "" THEN file.content ELSE "---\n" \o block \o "---\n" \o file.content

\* path.resolve(dir, p) below <cwd>/taffy-layout; an absolute p stays
\* absolute and names no file of fs.
pathResolve(dir, p) ==
  LET joined == posixNormalize(IF StartsWith(p, "/") \/ dir = "" THEN p ELSE dir \o "/" \o p)
  IN IF joined = "." THEN ""
     ELSE IF Len(joined) > 1 /\ EndsWith(joined, "/") THEN DropLast(joined, 1)
     ELSE joined

resolveDocPath(disk, locale, slug) ==
  LET root == docsRoot(locale)
      base == pathResolve(root, Join(slug, "/"))
      candidates == <<pathJoin(base, "index.md"), pathJoin(base, "index.mdx"),
                      base \o ".md", base \o ".mdx">>
      found == {i \in 1..Len(candidates) : isFile(DOMAIN disk, candidates[i])
                                             \/ isDirectory(DOMAIN disk, candidates[i])}
  IN IF found = {} THEN None
     ELSE Some(candidates[CHOOSE i \in found : \A j \in found : i <= j])

\* The banner of the changelog (the source's texts are Chinese and
\* Japanese; they are written here in ASCII).
getLocaleWarning(locale) ==
  CASE locale = "zh" -> Some("> **Note (zh):** the changelog is provided in English only.")
    [] locale = "ja" -> Some("> **Note (ja):** the changelog is provided in English only.")
    [] OTHER -> None

\* /<!--\s*INCLUDE\s+(.+?)\s*-->/ tried at s with the \s+ after INCLUDE
\* taking w characters and the lazy group k characters: None, or the
\* length of the match and the group.
RECURSIVE includeGroup(_, _, _, _)
includeGroup(s, head, w, k) ==
  LET start == head + w
      last == start + k
      after == DropFirst(s, last)
      ws == SpaceRun(after)
  IN IF last > Len(s) \/ Char(s, last) \in {"\n", "\r"} THEN None
     ELSE IF StartsWith(DropFirst(after, ws), "-->")
     THEN Some([length |-> last + ws + 3, group |-> SubSeq(s, start + 1, last)])
     ELSE includeGroup(s, head, w, k + 1)

RECURSIVE includeSpaces(_, _, _)
includeSpaces(s, head, w) ==
  IF w < 1 THEN None
  ELSE LET m == includeGroup(s, head, w, 1)
       IN IF m # None THEN m ELSE includeSpaces(s, head, w - 1)

\* The regular expression tried at the start of s.
includeMatchAt(s) ==
  IF ~StartsWith(s, "<!--") THEN None
  ELSE LET lead == SpaceRun(DropFirst(s, 4))
           head == 4 + lead + 7
       IN IF ~StartsWith(DropFirst(s, 4 + lead), "INCLUDE") THEN None
          ELSE includeSpaces(s, head, SpaceRun(DropFirst(s, head)))

\* The replacement patterns of String.prototype.replace in the text that
\* replaces matched, found between before and after; i is the position of
\* the first "$" of repl.
RECURSIVE expandReplacement(_, _, _, _)
expandPattern(repl, matched, before, after, i) ==
  IF i = 0 THEN repl
  ELSE SubSeq(repl, 1, i - 1)
         \o (CASE Char(repl, i + 1) = "$" -> "$"
               [] Char(repl, i + 1) = "&" -> matched
               [] Char(repl, i + 1) = "`" -> before
               [] Char(repl, i + 1) = "'" -> after
               [] OTHER -> "$")
         \o expandReplacement(
              DropFirst(repl, IF Char(repl, i + 1) \in {"$", "&", "`", "'"} THEN i + 1 ELSE i),
              matched, before, after)

expandReplacement(repl, matched, before, after) ==
  expandPattern(repl, matched, before, after, IndexOf(repl, "$", 1))

\* s.replace(pattern, repl) for a string pattern: the first occurrence, at
\* position i (0: none), is replaced.
replaceAt(s, pattern, repl, i) ==
  IF i = 0 THEN s
  ELSE SubSeq(s, 1, i - 1)
         \o expandReplacement(repl, pattern, SubSeq(s, 1, i - 1),
                              DropFirst(s, i + Len(pattern) - 1))
         \o DropFirst(s, i + Len(pattern) - 1)

replaceFirst(s, pattern, repl) == replaceAt(s, pattern, repl, IndexOf(s, pattern, 1))

\* The try block of the loop: result with the first occurrence of the
\* directive replaced by the file at resolvedPath, result unchanged when
\* the file cannot be read.
includeReplace(disk, result, directive, resolvedPath) ==
  IF isFile(DOMAIN disk, resolvedPath)
  THEN replaceFirst(result, directive, sourceOf(disk[resolvedPath]))
  ELSE result

\* The first position at or after i where the regular expression matches
\* content, 0 when there is none.
includeNext(content, i) ==
  LET hits == {j \in i..Len(content) : includeMatchAt(DropFirst(content, j - 1)) # None}
  IN IF hits = {} THEN 0 ELSE CHOOSE j \in hits : \A k \in hits : j <= k

\* The while loop of processIncludeDirectives: the regular expression is
\* run over content from position i on, the substitutions are made in
\* result.  includeStep is the body of the loop for the match m found at
\* position at.
RECURSIVE includeLoop(_, _, _, _, _)
includeStep(disk, content, currentFilePath, result, at, m) ==
  IF at = 0 THEN result
  ELSE includeLoop(disk, content, currentFilePath, at + m[1].length,
         includeReplace(disk, result, SubSeq(content, at, at + m[1].length - 1),
           pathResolve(posixDirname(currentFilePath), Trim(m[1].group))))

includeLoop(disk, content, currentFilePath, i, result) ==
  includeStep(disk, content, currentFilePath, result, includeNext(content, i),
              includeMatchAt(DropFirst(content, includeNext(content, i) - 1)))

processIncludeDirectives(disk, content, currentFilePath) ==
  includeLoop(disk, content, currentFilePath, 1, content)

\* The DocData getDoc builds from the file it read.  The field locale is
\* not in the source: it records the locale the call was made for.
docData(locale, slug, filePath, data, content, processedContent) ==
  [title |-> unescapeTitle(OrElse(data.title, OrElse(data.sidebar_label,
               OrElse(extractTitle(content), titleFromSlug(slug))))),
   slug |-> slug, content |-> processedContent, data |-> data,
   toc |-> extractToc(processedContent), isIndex |-> isIndexFile(filePath),
   locale |-> locale]

\* The content of the changelog page: the banner of the locale, then the
\* text of CHANGELOG.md.
changelogContent(locale, source, warning) ==
  IF locale # DEFAULT_LOCALE /\ warning # None
  THEN warning[1] \o "\n\n---\n\n" \o source ELSE source

\* The file read when a changelog of the locale's own root is preferred.
docFilePathOwnFirst(disk, locale, slug, isChangelog) ==
  IF isChangelog /\ resolveDocPath(disk, locale, slug) = None
  THEN Some("CHANGELOG.md") ELSE resolveDocPath(disk, locale, slug)

\* The file getDoc reads.
docFilePath(disk, locale, slug, isChangelog) ==
  IF isChangelog THEN Some("CHANGELOG.md") ELSE resolveDocPath(disk, locale, slug)

\* The body getDoc works on: the changelog behind the banner, or the body
\* of the content file.
docContent(locale, isChangelog, file) ==
  IF isChangelog THEN changelogContent(locale, sourceOf(file), getLocaleWarning(locale))
  ELSE file.content

\* getDoc once the file is chosen: filePath is None or Some(path).
getDocAt(disk, locale, slug, isChangelog, filePath) ==
  IF filePath = None THEN None
  ELSE IF ~isFile(DOMAIN disk, filePath[1]) THEN Thrown
  ELSE IF ~isChangelog /\ matterThrows(disk[filePath[1]]) THEN Thrown
  ELSE Some(docData(locale, slug, filePath[1],
                    IF isChangelog
                    THEN [title |-> "Changelog", sidebar_label |-> "",
                          sidebar_position |-> None]
                    ELSE disk[filePath[1]].data,
                    docContent(locale, isChangelog, disk[filePath[1]]),
                    IF isChangelog THEN docContent(locale, isChangelog, disk[filePath[1]])
                    ELSE processIncludeDirectives(disk, disk[filePath[1]].content,
                                                  filePath[1])))

\* getDoc(locale, slug): None (null), Thrown, or Some(DocData).
getDoc(disk, locale, slug) ==
  getDocAt(disk, locale, slug, Len(slug) = 1 /\ slug[1] = "changelog",
           docFilePath(disk, locale, slug, Len(slug) = 1 /\ slug[1] = "changelog"))

(***************************************************************************)
(* The docs pages: app/[locale]/docs/[[...slug]]/page.tsx (localized) and  *)
(* app/docs/[[...slug]]/page.tsx (default locale).                         *)
(***************************************************************************)
\* getUi(locale).missingTranslation (the Chinese and Japanese texts are
\* written here in ASCII).
missingTranslation(locale) ==
  CASE locale = "zh" -> "zh: this page has no translation yet, the English version is shown."
    [] locale = "ja" -> "ja: this page has no translation yet, the English version is shown."
    [] OTHER -> "This page is not yet translated. Showing English."

\* The notice set only when the primary document is missing.
pageNoticeMissingOnly(locale, isApi, primaryDoc, fallbackDoc) ==
  IF primaryDoc = None /\ fallbackDoc # None THEN Some(missingTranslation(locale)) ELSE None

\* The notice of the localized page.
pageNotice(locale, isApi, primaryDoc, fallbackDoc) ==
  IF isApi \/ (primaryDoc = None /\ fallbackDoc # None)
  THEN Some(missingTranslation(locale)) ELSE None

\* What a page ends in: not-found, a redirect, an error, or the DocShell it
\* renders with the arguments of renderMdx.
NotFound == [kind |-> "notFound"]
Redirect(to) == [kind |-> "redirect", to |-> to]
Failed == [kind |-> "error"]
Rendered(locale, doc, notice, basePath, slug) ==
  [kind |-> "render", locale |-> locale, toc |-> doc.toc, slug |-> slug,
   notice |-> notice, doc |-> doc,
   mdx |-> [source |-> doc.content, basePath |-> basePath, slug |-> slug,
            isIndex |-> doc.isIndex, useMarkdownOnly |-> slug[1] = "api"]]

\* doc of the localized page.
pageDoc(isApi, primaryDoc, fallbackDoc) ==
  IF isApi THEN fallbackDoc ELSE IF primaryDoc # None THEN primaryDoc ELSE fallbackDoc

\* Page of the localized route once the two documents are fetched.
localePageOf(locale, slug, resolvedSlug, primaryDoc, fallbackDoc) ==
  IF ~isLocale(locale) \/ locale = DEFAULT_LOCALE THEN NotFound
  ELSE IF Len(slug) = 1 /\ slug[1] = "intro" THEN Redirect("/" \o locale \o "/docs")
  ELSE IF primaryDoc = Thrown \/ fallbackDoc = Thrown THEN Failed
  ELSE IF pageDoc(resolvedSlug[1] = "api", primaryDoc, fallbackDoc) = None THEN NotFound
  ELSE Rendered(locale, pageDoc(resolvedSlug[1] = "api", primaryDoc, fallbackDoc)[1],
                pageNotice(locale, resolvedSlug[1] = "api", primaryDoc, fallbackDoc),
                "/" \o locale \o "/docs", resolvedSlug)

resolvedSlugOf(slug) == IF Len(slug) > 0 THEN slug ELSE <<"intro">>

\* Page of the localized route.
localePage(disk, locale, slug) ==
  localePageOf(locale, slug, resolvedSlugOf(slug),
               getDoc(disk, locale, resolvedSlugOf(slug)),
               getDoc(disk, DEFAULT_LOCALE, resolvedSlugOf(slug)))

defaultPageOf(slug, resolvedSlug, doc) ==
  IF Len(slug) = 1 /\ slug[1] = "intro" THEN Redirect("/docs")
  ELSE IF doc = Thrown THEN Failed
  ELSE IF doc = None THEN NotFound
  ELSE Rendered(DEFAULT_LOCALE, doc[1], None, "/docs", resolvedSlug)

\* Page of the default-locale route.
defaultPage(disk, slug) ==
  defaultPageOf(slug, resolvedSlugOf(slug), getDoc(disk, DEFAULT_LOCALE, resolvedSlugOf(slug)))

\* generateStaticParams of the localized route.  pushUnseen is the loop
\* over combined: a slug is pushed for the locale unless its key was seen.
RECURSIVE pushUnseen(_, _, _, _)
pushUnseen(locale, combined, seen, params) ==
  IF combined = <<>> THEN params
  ELSE IF Join(Head(combined), "/") \in seen
       THEN pushUnseen(locale, Tail(combined), seen, params)
       ELSE pushUnseen(locale, Tail(combined), seen \cup {Join(Head(combined), "/")},
                       Append(params, [locale |-> locale, slug |-> Head(combined)]))

\* The loop that pushes only the slugs listed for the locale itself.
RECURSIVE staticParamsOwnOnly(_, _, _)
staticParamsOwnOnly(locales, slugsOf, params) ==
  IF locales = <<>> THEN params
  ELSE staticParamsOwnOnly(Tail(locales), slugsOf,
         Append(pushUnseen(Head(locales), slugsOf[Head(locales)], {}, params),
                [locale |-> Head(locales), slug |-> <<>>]))

\* locales.forEach: slugsOf[l] is what getAllDocSlugs(l) resolved to.
RECURSIVE staticParamsFrom(_, _, _)
staticParamsFrom(locales, slugsOf, params) ==
  IF locales = <<>> THEN params
  ELSE staticParamsFrom(Tail(locales), slugsOf,
         Append(pushUnseen(Head(locales), slugsOf[Head(locales)] \o slugsOf[DEFAULT_LOCALE],
                           {}, params),
                [locale |-> Head(locales), slug |-> <<>>]))

\* Promise.all rejects when one getAllDocSlugs rejects.
generateStaticParams(listingOf) ==
  IF \E l \in Locales : listingOf[l] = Thrown THEN Thrown
  ELSE staticParamsFrom(SelectSeq(LOCALE_KEYS, LAMBDA l : l # DEFAULT_LOCALE),
                        [l \in Locales |-> getAllDocSlugs(l, listingOf[l])], <<>>)

(***************************************************************************)
(* features/docs/lib/navigation.ts and the DocShell component that calls   *)
(* it with the sidebars of the locale and of the default locale.           *)
(***************************************************************************)
\* getUi(locale): the labels of the groups (the Chinese and Japanese texts
\* are written here in ASCII).
getUi(locale) ==
  CASE locale = "zh" -> [docs |-> "Wendang", api |-> "API", benchmark |-> "Jizhun Ceshi",
                         playground |-> "Youlechang"]
    [] locale = "ja" -> [docs |-> "Dokyumento", api |-> "API", benchmark |-> "Benchimaku",
                         playground |-> "Pureiguraundo"]
    [] OTHER -> [docs |-> "Documentation", api |-> "API", benchmark |-> "Benchmark",
                 playground |-> "Playground"]

\* remapHref that leaves every href as it is.
remapHrefUnchanged(locale, href) == href

remapHref(locale, href) ==
  IF href = None \/ href[1] = "" THEN href
  ELSE IF locale = DEFAULT_LOCALE THEN href
  ELSE IF StartsWith(href[1], "/docs") THEN Some(localeBasePath(locale) \o href[1])
  ELSE href

RECURSIVE remapNavItem(_, _)
remapNavItem(locale, item) ==
  [item EXCEPT !.href = remapHref(locale, item.href),
               !.children = IF item.children = None THEN None
                            ELSE Some([i \in 1..Len(item.children[1]) |->
                                         remapNavItem(locale, item.children[1][i])])]

\* The key of the documentation group whatever the slug is.
activeGroupKeyDocs(slug) == "docs"

\* slug[0] === "api" ? "api" : "docs"
activeGroupKey(slug) == IF Len(slug) > 0 /\ slug[1] = "api" THEN "api" ELSE "docs"

\* group.href || group.children?.[0]?.href || "#"
navGroupHref(group) ==
  IF group.href # None /\ group.href[1] # "" THEN group.href[1]
  ELSE IF /\ group.children # None
          /\ group.children[1] # <<>>
          /\ group.children[1][1].href # None
          /\ group.children[1][1].href[1] # ""
       THEN group.children[1][1].href[1]
       ELSE "#"

buildNavigationGroups(locale, items, defaultItems, ui, slug) ==
  LET apiAt == findSection(defaultItems, "api")
      apiGroup == IF apiAt = 0 THEN <<>>
                  ELSE <<[remapNavItem(locale, defaultItems[apiAt]) EXCEPT !.title = ui.api]>>
      isDocumentation(item) ==
        item.segment # None /\ item.segment[1] # "" /\ item.segment[1] # "api"
      documentationGroup ==
        NavItem(ui.docs, Some(localeBasePath(locale) \o "/docs"), 0,
                Some(SelectSeq(items, isDocumentation)), Some("docs"))
      groups ==
        <<documentationGroup>> \o apiGroup
          \o <<NavItem(ui.benchmark, Some(localeBasePath(locale) \o "/benchmark"), 10,
                       Some(<<>>), Some("benchmark")),
               NavItem(ui.playground, Some(localeBasePath(locale) \o "/playground"), 11,
                       Some(<<>>), Some("playground"))>>
      activeAt == findSection(groups, activeGroupKey(slug))
      activeGroup == IF activeAt # 0 THEN groups[activeAt] ELSE documentationGroup
  IN [groups |-> groups,
      activeGroup |-> activeGroup,
      navGroups |-> [i \in 1..Len(groups) |->
                       [key |-> groups[i].segment[1], title |-> groups[i].title,
                        href |-> navGroupHref(groups[i])]],
      sidebarItems |-> <<activeGroup>>]

\* DocShell up to the call of buildNavigationGroups: listing and
\* defaultListing are what listDocFiles returned for the locale and for the
\* default locale.  A sidebar that throws fails the page.
docShell(disk, locale, slug, listing, defaultListing) ==
  IF metaListThrows(disk, listing) \/ metaListThrows(disk, defaultListing) THEN Failed
  ELSE [kind |-> "shell",
        nav |-> buildNavigationGroups(locale,
                  getSidebar(locale, getDocMetaList(disk, locale, listing)),
                  getSidebar(DEFAULT_LOCALE, getDocMetaList(disk, DEFAULT_LOCALE, defaultListing)),
                  getUi(locale), slug)]

(***************************************************************************)
(* SpecPage: one request to a docs page over a content tree in which every *)
(* locale has its own files, and the DocShell the page renders.            *)
(***************************************************************************)
MaxPageFiles == 2

PageRelPaths == {"intro.md", "api.md", "guide/index.md", "api/x.md", "api/README.md"}

PageSlugs ==
  {<<>>, <<"intro">>, <<"api">>, <<"guide">>, <<"changelog">>, <<"missing">>,
   <<"api", "x">>, <<"api", "README">>}

\* The file of a locale at rel: a heading that names both, and for the
\* guide a directive that includes the intro next to it.
PageFile(locale, rel) ==
  File("", "", None,
       "## " \o locale \o " " \o rel
         \o (IF rel = "guide/index.md" THEN "\n<!-- INCLUDE ../intro.md -->" ELSE ""))

PageTrees ==
  LET subsets == {S \in SUBSET PageRelPaths : Cardinality(S) <= MaxPageFiles}
      changelogs == {{}, {"CHANGELOG.md"}}
      at(en, zh, cl) == {<<"en", r>> : r \in en} \cup {<<"zh", r>> : r \in zh}
                          \cup {<<"", r>> : r \in cl}
      pathOf(x) == IF x[1] = "" THEN x[2] ELSE pathJoin(localeDir(x[1]), x[2])
      tree(en, zh, cl) ==
        [p \in {pathOf(x) : x \in at(en, zh, cl)} |->
           LET x == CHOOSE y \in at(en, zh, cl) : pathOf(y) = p
           IN IF x[1] = "" THEN File("", "", None, "## 1.0\n") ELSE PageFile(x[1], x[2])]
  IN {tree(en, zh, cl) : en \in subsets, zh \in subsets, cl \in changelogs}

InitPage ==
  /\ fs \in PageTrees
  /\ op = "init"
  /\ arg = None
  /\ returned = None

LocalePage ==
  /\ op = "init"
  /\ \E locale \in Locales \cup {"fr"}, slug \in PageSlugs :
       /\ op' = "localePage"
       /\ arg' = [locale |-> locale, slug |-> slug]
       /\ returned' = localePage(fs, locale, slug)
       /\ UNCHANGED fs

DefaultPage ==
  /\ op = "init"
  /\ \E slug \in PageSlugs :
       /\ op' = "defaultPage"
       /\ arg' = [slug |-> slug]
       /\ returned' = defaultPage(fs, slug)
       /\ UNCHANGED fs

\* The DocShell of a rendered page.  listDocFiles is cached per locale, so
\* for the default locale items and defaultItems come from one listing.
DocShell ==
  /\ op \in {"localePage", "defaultPage"}
  /\ returned.kind = "render"
  /\ \E listing \in listDocFiles(Files, returned.locale),
        defaultListing \in listDocFiles(Files, DEFAULT_LOCALE) :
       /\ returned.locale = DEFAULT_LOCALE => listing = defaultListing
       /\ op' = "docShell"
       /\ arg' = [locale |-> returned.locale, slug |-> returned.slug]
       /\ returned' = docShell(fs, returned.locale, returned.slug, listing, defaultListing)
       /\ UNCHANGED fs

NextPage == LocalePage \/ DefaultPage \/ DocShell

SpecPage == InitPage /\ [][NextPage]_vars

\* The slug the page looks up.
lookedUp == resolvedSlugOf(arg.slug)

\* C2: on the localized page the notice is set exactly when the rendered
\* document was loaded for the default locale; a missing translation
\* renders the default locale's document in the locale's shell with the
\* notice, a locale's own non-api document renders without it; the default
\* page never sets the notice.
C2_NoticeIffFallback ==
  /\ (op = "localePage" /\ returned.kind = "render") =>
       LET own == getDoc(fs, arg.locale, lookedUp)
           english == getDoc(fs, DEFAULT_LOCALE, lookedUp)
       IN /\ returned.locale = arg.locale
          /\ arg.locale # DEFAULT_LOCALE
          /\ (returned.notice # None) <=> (returned.doc.locale = DEFAULT_LOCALE)
          /\ (own = None /\ english # None) =>
               /\ returned.doc = english[1]
               /\ returned.mdx.source = english[1].content
               /\ returned.notice = Some(missingTranslation(arg.locale))
          /\ (own # None /\ lookedUp[1] # "api") =>
               /\ returned.doc = own[1]
               /\ returned.notice = None
  /\ (op = "defaultPage" /\ returned.kind = "render") => returned.notice = None

\* A page of zh without a translation, shown in English with the notice.
C2_Witness ==
  /\ op = "localePage"
  /\ arg = [locale |-> "zh", slug |-> <<"guide">>]
  /\ "docs/i18n/zh-CN/guide/index.md" \notin DOMAIN fs
  /\ returned.kind = "render"
  /\ returned.locale = "zh"
  /\ returned.doc.locale = "en"
  /\ returned.notice # None

\* The group of returned.nav.groups with the segment, as a sequence of none
\* or one.
groupsOf(segment) ==
  SelectSeq(returned.nav.groups, LAMBDA g : g.segment = Some(segment))

\* The default locale lists a document below the segment "api", so its
\* sidebar has a top-level node of that segment.
defaultHasApi ==
  \E d \in docsOf(DEFAULT_LOCALE) : Len(d.slug) > 0 /\ d.slug[1] = "api"

\* activeGroup is exactly one of the returned groups.
oneGroupActive ==
  \E i \in 1..Len(returned.nav.groups) :
    /\ returned.nav.groups[i] = returned.nav.activeGroup
    /\ \A j \in 1..Len(returned.nav.groups) :
         returned.nav.groups[j] = returned.nav.activeGroup => j = i

\* C18 (as amended): exactly one group is active; it is the API group when
\* the first slug segment is "api" and the default locale's sidebar has an
\* "api" node, the documentation group in every other case.
C18_OneActiveGroup ==
  (op = "docShell" /\ returned.kind = "shell") =>
    /\ oneGroupActive
    /\ returned.nav.sidebarItems = <<returned.nav.activeGroup>>
    /\ returned.nav.activeGroup.segment =
         (IF arg.slug[1] = "api" /\ defaultHasApi THEN Some("api") ELSE Some("docs"))

\* C18 as stated: the API group is active whenever the first slug segment
\* is "api", the documentation group for any other slug.
C18_AsStated ==
  (op = "docShell" /\ returned.kind = "shell") =>
    /\ oneGroupActive
    /\ returned.nav.activeGroup.segment =
         (IF arg.slug[1] = "api" THEN Some("api") ELSE Some("docs"))

\* A page of the API reference shown for zh: the API group is active.
C18_Witness ==
  /\ op = "docShell"
  /\ arg = [locale |-> "zh", slug |-> <<"api", "x">>]
  /\ returned.kind = "shell"
  /\ Len(groupsOf("api")) = 1
  /\ returned.nav.activeGroup = groupsOf("api")[1]

\* item with base put in front of every href of its subtree.
RECURSIVE prefixedItem(_, _)
prefixedItem(base, item) ==
  [item EXCEPT !.href = IF item.href = None THEN None ELSE Some(base \o item.href[1]),
               !.children = IF item.children = None THEN None
                            ELSE Some([i \in 1..Len(item.children[1]) |->
                                         prefixedItem(base, item.children[1][i])])]

\* C19: for every locale the API group is the node of segment "api" of the
\* default locale's sidebar with the locale's base path in front of every
\* href of the subtree (there is no API group when the default locale has
\* no such node), and the documentation group holds no item of segment
\* "api", so the locale's own "api" items are in no group.
C19_ApiGroupFromDefaultLocale ==
  (op = "docShell" /\ returned.kind = "shell") =>
    /\ \A i \in 1..Len(returned.nav.groups[1].children[1]) :
         returned.nav.groups[1].children[1][i].segment # Some("api")
    /\ \E defaultListing \in listDocFiles(Files, DEFAULT_LOCALE) :
         LET defaultItems == getSidebar(DEFAULT_LOCALE,
                               getDocMetaList(fs, DEFAULT_LOCALE, defaultListing))
             at == findSection(defaultItems, "api")
         IN IF at = 0 THEN groupsOf("api") = <<>>
            ELSE /\ Len(groupsOf("api")) = 1
                 /\ [groupsOf("api")[1] EXCEPT !.title = ""] =
                      [prefixedItem(localeBasePath(arg.locale), defaultItems[at])
                         EXCEPT !.title = ""]

\* zh has a page api.md of its own while the default locale has api/x.md:
\* the API group of zh is the default locale's section with /zh in front.
C19_Witness ==
  /\ op = "docShell"
  /\ arg.locale = "zh"
  /\ returned.kind = "shell"
  /\ isFile(Files, "docs/i18n/zh-CN/api.md")
  /\ isFile(Files, "docs/api/x.md")
  /\ ~isFile(Files, "docs/api.md")
  /\ Len(groupsOf("api")) = 1
  /\ groupsOf("api")[1].href = None
  /\ groupsOf("api")[1].children[1][1].href = Some("/zh/docs/api/x")

\* No file on disk is the document of slug for the locale: none of the four
\* candidates below the content root and, for the changelog, no CHANGELOG.md
\* (the file that slug is read from).
noDocFile(locale, slug) ==
  LET base == pathResolve(docsRoot(locale), Join(slug, "/"))
  IN /\ \A c \in {pathJoin(base, "index.md"), pathJoin(base, "index.mdx"),
                  base \o ".md", base \o ".mdx"} : ~isFile(Files, c)
     /\ slug = <<"changelog">> => ~isFile(Files, "CHANGELOG.md")

\* C14: getDoc returns null, and throws nothing, for a slug that has no
\* file for the locale, and a docs page whose lookups all return null ends
\* in not-found.
C14_MissingDocIsNull ==
  /\ (op = "defaultPage" /\ arg.slug # <<"intro">>) =>
       /\ noDocFile(DEFAULT_LOCALE, lookedUp) => getDoc(fs, DEFAULT_LOCALE, lookedUp) = None
       /\ getDoc(fs, DEFAULT_LOCALE, lookedUp) = None => returned.kind = "notFound"
  /\ (/\ op = "localePage"
      /\ isLocale(arg.locale)
      /\ arg.locale # DEFAULT_LOCALE
      /\ arg.slug # <<"intro">>) =>
       /\ noDocFile(arg.locale, lookedUp) => getDoc(fs, arg.locale, lookedUp) = None
       /\ noDocFile(DEFAULT_LOCALE, lookedUp) => getDoc(fs, DEFAULT_LOCALE, lookedUp) = None
       /\ (getDoc(fs, arg.locale, lookedUp) = None /\ getDoc(fs, DEFAULT_LOCALE, lookedUp) = None)
            => returned.kind = "notFound"

(***************************************************************************)
(* SpecDoc: documents and listings read from content trees in which an     *)
(* included file, the frontmatter of a file or the content root of a       *)
(* locale can be missing or broken.  The default locale always has         *)
(* guide.md, which includes snippet.md; the other files are optional.      *)
(***************************************************************************)
MaxOptional == 2

\* The optional files: the paths and what they hold.  bad.md has a
\* frontmatter block YAML cannot parse; the others differ in where their
\* title comes from, in the case of their name, in the directory they lie
\* in and in their headings (fenced.md has one inside a code block).
OptionalFiles ==
  {<<"docs/snippet.md", File("", "", None, c)>> :
      c \in {"X", "got $& and $$", "see <!-- INCLUDE b.md -->", "## Inc"}}
    \cup {<<"docs/b.md", File("Bee", "", None, "Y")>>,
          <<"docs/bad.md", [raw |-> "---\ntitle: [\n---\n# Bad\n"]>>,
          <<"docs/i18n/zh-CN/guide.md", File("", "", None, "# Zh")>>,
          <<"docs/i18n/ja-JP/guide.md", File("", "", None, "# Ja")>>,
          <<"docs/lab.md", File("", "Label", None, "# Head")>>,
          <<"docs/head-only.md", File("", "", None, "intro\n# First\n# Second")>>,
          <<"CHANGELOG.md", File("", "", None, "# Changes\n## 1.0")>>,
          <<"docs/changelog.md", File("Release notes", "", None, "# Local log")>>,
          <<"docs/i18n/zh-CN/changelog.md", File("", "", None, "# Zh log")>>,
          <<"docs/README.md", File("", "", None, "")>>,
          <<"docs/x/ReadMe.MDX", File("", "", None, "")>>,
          <<"docs/public/p.md", File("", "", None, "")>>,
          <<"docs/notes.txt", File("", "", None, "")>>,
          <<"docs/i18n/zh-CN/README.md", File("", "", None, "")>>,
          <<"docs/i18n/zh-CN/public/p.md", File("", "", None, "")>>,
          <<"docs/x/Index.md", File("", "", None, "")>>,
          <<"docs/x/index.md", File("", "", None, "")>>,
          <<"docs/Upper.MD", File("", "", None, "")>>,
          <<"docs/toc.md",
            File("", "", None, "## One\n<!-- INCLUDE snippet.md -->\n### Two\n#### Deep\n# Top")>>,
          <<"docs/fenced.md", File("", "", None, "## Real\n~~~\n## not a heading\n~~~")>>}

DocTrees ==
  LET guide == <<"docs/guide.md", File("", "", None, "A\n<!-- INCLUDE snippet.md -->\nB")>>
      choices == {S \in SUBSET OptionalFiles :
                    /\ Cardinality(S) <= MaxOptional
                    /\ \A x, y \in S : x[1] = y[1] => x = y}
      tree(S) == [p \in {x[1] : x \in S} |-> (CHOOSE x \in S : x[1] = p)[2]]
  IN {tree(S \cup {guide}) : S \in choices}

\* The contents processIncludeDirectives is applied to, as the body of
\* docs/guide.md.
IncludeContents ==
  {"A\n<!-- INCLUDE snippet.md -->\nB",
   "<!-- INCLUDE snippet.md -->|<!-- INCLUDE b.md -->",
   "<!--INCLUDE  b.md-->, <!-- INCLUDE ./snippet.md -->",
   "<!-- INCLUDE snippet.md --><!-- INCLUDE snippet.md -->",
   "<!-- INCLUDE ../docs/b.md -->",
   "<!-- include snippet.md --> and no directive"}

DocSlugs ==
  {<<>>, <<"guide">>, <<"snippet">>, <<"bad">>, <<"missing">>, <<"changelog">>, <<"b">>,
   <<"lab">>, <<"head-only">>, <<"x">>, <<"x", "Index">>, <<"Upper">>, <<"toc">>,
   <<"fenced">>}

InitDoc ==
  /\ fs \in DocTrees
  /\ op = "init"
  /\ arg = None
  /\ returned = None

GetDoc ==
  /\ op = "init"
  /\ \E locale \in Locales, slug \in DocSlugs :
       /\ op' = "getDoc"
       /\ arg' = [locale |-> locale, slug |-> slug]
       /\ returned' = getDoc(fs, locale, slug)
       /\ UNCHANGED fs

ProcessIncludeDirectives ==
  /\ op = "init"
  /\ \E content \in IncludeContents :
       /\ op' = "processIncludeDirectives"
       /\ arg' = [content |-> content, currentFilePath |-> "docs/guide.md"]
       /\ returned' = processIncludeDirectives(fs, content, "docs/guide.md")
       /\ UNCHANGED fs

\* listDocFiles(locale): one of the listings the walk can return.
ListDocFiles ==
  /\ op = "init"
  /\ \E locale \in Locales :
       \E listing \in listDocFiles(Files, locale) :
         /\ op' = "listDocFiles"
         /\ arg' = [locale |-> locale]
         /\ returned' = listing
         /\ UNCHANGED fs

GetDocMetaList ==
  /\ op = "init"
  /\ \E locale \in Locales :
       \E listing \in listDocFiles(Files, locale) :
         /\ op' = "getDocMetaList"
         /\ arg' = [locale |-> locale, listing |-> listing]
         /\ returned' = IF metaListThrows(fs, listing) THEN Thrown
                         ELSE getDocMetaList(fs, locale, listing)
         /\ UNCHANGED fs

GenerateStaticParams ==
  /\ op = "init"
  /\ \E en \in listDocFiles(Files, "en"), zh \in listDocFiles(Files, "zh"),
        ja \in listDocFiles(Files, "ja") :
       /\ op' = "generateStaticParams"
       /\ arg' = None
       /\ returned' = generateStaticParams([en |-> en, zh |-> zh, ja |-> ja])
       /\ UNCHANGED fs

NextDoc ==
  \/ GenerateStaticParams
  \/ GetDoc
  \/ ProcessIncludeDirectives
  \/ GetAllDocSlugs
  \/ GetSidebar
  \/ ListDocFiles
  \/ GetDocMetaList

SpecDoc == InitDoc /\ [][NextDoc]_vars

(***************************************************************************)
(* What the claims about the include resolver speak of.                    *)
(***************************************************************************)
\* The directives of content from position i on: where each starts, its
\* text and the file its path resolves to from directory dir.
RECURSIVE directivesFrom(_, _, _)
directivesFrom(content, i, dir) ==
  LET at == includeNext(content, i)
  IN IF at = 0 THEN <<>>
     ELSE LET m == includeMatchAt(DropFirst(content, at - 1))[1]
          IN <<[at |-> at, text |-> SubSeq(content, at, at + m.length - 1),
                target |-> pathResolve(dir, Trim(m.group))]>>
               \o directivesFrom(content, at + m.length, dir)

\* content from position i on with each directive of ds whose target can be
\* read replaced by the raw text of the target, everything else kept.
RECURSIVE spliced(_, _, _)
spliced(content, i, ds) ==
  IF ds = <<>> THEN DropFirst(content, i - 1)
  ELSE SubSeq(content, i, ds[1].at - 1)
         \o (IF isFile(Files, ds[1].target) THEN sourceOf(fs[ds[1].target])
             ELSE ds[1].text)
         \o spliced(content, ds[1].at + Len(ds[1].text), Tail(ds))

\* The directives of the content the resolver was applied to.
directivesOfArg == directivesFrom(arg.content, 1, posixDirname(arg.currentFilePath))

\* C11: when every directive of the content names a file that can be read,
\* the result is the content with each directive replaced, where it stands,
\* by exactly the raw text of its file, all other text unchanged.
C11_DirectivesReplacedByRawText ==
  (/\ op = "processIncludeDirectives"
   /\ \A k \in 1..Len(directivesOfArg) : isFile(Files, directivesOfArg[k].target))
    => returned = spliced(arg.content, 1, directivesOfArg)

\* C12: when the target of some directive cannot be read, nothing is
\* thrown: the result is the content with that directive's text kept, every
\* directive with a readable target replaced by its file and the remaining
\* text unchanged; getDoc returns the document with that content.
C12_UnreadableTargetKept ==
  /\ (/\ op = "processIncludeDirectives"
      /\ \E k \in 1..Len(directivesOfArg) : ~isFile(Files, directivesOfArg[k].target))
       => returned = spliced(arg.content, 1, directivesOfArg)
  /\ (/\ op = "getDoc"
      /\ arg.slug = <<"guide">>
      /\ isFile(Files, pathJoin(docsRoot(arg.locale), "guide.md"))
      /\ LET file == fs[pathJoin(docsRoot(arg.locale), "guide.md")]
             ds == directivesFrom(file.content, 1, docsRoot(arg.locale))
         IN \E k \in 1..Len(ds) : ~isFile(Files, ds[k].target))
       => LET file == fs[pathJoin(docsRoot(arg.locale), "guide.md")]
          IN /\ returned # Thrown
             /\ returned # None
             /\ returned[1].content =
                  spliced(file.content, 1, directivesFrom(file.content, 1, docsRoot(arg.locale)))

\* C13: the text of an included file that itself holds a directive is in
\* the result as it is in the file: a directive that entered the result
\* from an included file is never replaced.
C13_IncludedDirectivesNotExpanded ==
  op = "processIncludeDirectives" =>
    \A k \in 1..Len(directivesOfArg) :
      LET d == directivesOfArg[k]
      IN (/\ isFile(Files, d.target)
          /\ includeNext(sourceOf(fs[d.target]), 1) # 0
          /\ IndexOf(sourceOf(fs[d.target]), "$", 1) = 0)
           => IndexOf(returned, sourceOf(fs[d.target]), 1) # 0

(***************************************************************************)
(* What the claims about broken content speak of.                          *)
(***************************************************************************)
\* The content files of the locale whose frontmatter cannot be parsed.
malformedFiles(locale) ==
  {f \in Files : /\ StartsWith(f, docsRoot(locale) \o "/")
                 /\ ~isIgnoredPath(locale, pathRelative(docsRoot(locale), f))
                 /\ matterThrows(fs[f])}

\* The title the heuristics give a file that has no usable frontmatter.
heuristicTitle(locale, f) ==
  unescapeTitle(OrElse(extractTitle(sourceOf(fs[f])),
                       titleFromSlug(slugFromFile(docsRoot(locale), f))))

\* C15: a content file with a malformed frontmatter block makes neither
\* getSidebar (and getDocMetaList below it) nor getDoc fail: the document is
\* in the sidebar and is returned, with the title the heuristics give and
\* the default order.
C15_MalformedFrontmatterTolerated ==
  /\ (op = "getSidebar" /\ malformedFiles(arg.locale) # {}) =>
       /\ returned # Thrown
       /\ \A f \in malformedFiles(arg.locale) :
            \E n \in navNodes(returned, <<>>) :
              /\ n.node.href = Some(docHref(arg.locale, slugFromFile(docsRoot(arg.locale), f)))
              /\ n.node.title = heuristicTitle(arg.locale, f)
              /\ n.node.order = DEFAULT_ORDER
  /\ (/\ op = "getDoc"
      /\ resolveDocPath(fs, arg.locale, arg.slug) # None
      /\ resolveDocPath(fs, arg.locale, arg.slug)[1] \in malformedFiles(arg.locale)) =>
       /\ returned # Thrown
       /\ returned # None
       /\ returned[1].title = heuristicTitle(arg.locale, resolveDocPath(fs, arg.locale, arg.slug)[1])

\* C16: listing the content of a locale whose content root does not exist
\* raises an error to the caller of getAllDocSlugs and of getSidebar; no
\* listing, empty or partial, is returned.
C16_MissingRootThrows ==
  (op \in {"getAllDocSlugs", "getSidebar"} /\ ~isDirectory(Files, docsRoot(arg.locale)))
    => returned = Thrown

\* The sidebar of a locale that has no content root.
C16_Witness ==
  /\ op = "getSidebar"
  /\ arg.locale = "zh"
  /\ ~isDirectory(Files, docsRoot("zh"))
  /\ isFile(Files, "docs/guide.md")
  /\ returned = Thrown

(***************************************************************************)
(* What the claims about documents and listings speak of.                  *)
(***************************************************************************)
\* The first available of the frontmatter title, the frontmatter
\* sidebar_label, the first level-1 heading of the body and the humanized
\* last segment of the slug.
priorityTitle(file, slug) ==
  OrElse(file.data.title, OrElse(file.data.sidebar_label,
    OrElse(extractTitle(file.content), titleFromSlug(slug))))

\* getDoc(locale, slug) reads a file and returns a document.
docIsRead(locale, slug) ==
  LET path == docFilePath(fs, locale, slug, slug = <<"changelog">>)
  IN /\ path # None
     /\ isFile(Files, path[1])
     /\ slug = <<"changelog">> \/ ~matterThrows(fs[path[1]])

\* The listed files of the locale whose slug is slug (none when the content
\* root is missing).
listedAs(locale, slug) ==
  IF ~isDirectory(Files, docsRoot(locale)) THEN {}
  ELSE {f \in UNION {SeqToSet(l) : l \in listDocFiles(Files, locale)} :
          slugFromFile(docsRoot(locale), f) = slug}

\* C21: every entry of getDocMetaList has as title the first available of
\* frontmatter title, frontmatter sidebar_label, first level-1 heading and
\* humanized last slug segment of its file, and getDoc gives a listed
\* document that same title, which is also the title getDocMetaList gives.
C21_TitleByPriority ==
  /\ (op = "getDocMetaList" /\ ~metaListThrows(fs, arg.listing)) =>
       \A i \in 1..Len(returned) :
         returned[i].title = priorityTitle(fs[arg.listing[i]], returned[i].slug)
  /\ (op = "getDoc" /\ docIsRead(arg.locale, arg.slug)) =>
       \A f \in listedAs(arg.locale, arg.slug) :
         ~matterThrows(fs[f]) =>
           /\ returned[1].title = priorityTitle(fs[f], arg.slug)
           /\ returned[1].title = docMeta(fs, arg.locale, f).title

\* The files the listing of the locale is to hold: the Markdown files below
\* its content root, without the readme files and, for the default locale,
\* without what lies under i18n/ and public/ of the root.
listable(locale) ==
  {f \in Files :
     /\ StartsWith(f, docsRoot(locale) \o "/")
     /\ EndsWith(ToLowerCase(f), ".md") \/ EndsWith(ToLowerCase(f), ".mdx")
     /\ ToLowerCase(pathBasename(f)) \notin {"readme.md", "readme.mdx"}
     /\ locale = DEFAULT_LOCALE =>
          /\ ~StartsWith(f, docsRoot(locale) \o "/i18n/")
          /\ ~StartsWith(f, docsRoot(locale) \o "/public/")}

\* C22: listDocFiles(L) returns, once each, exactly the Markdown files under
\* L's root that are not readme files (whatever the case of the name) and,
\* for the default locale, do not lie under i18n/ or public/; no file of
\* another locale's content root is listed for the default locale.
C22_ListingExact ==
  (op = "listDocFiles" /\ isDirectory(Files, docsRoot(arg.locale))) =>
    /\ SeqToSet(returned) = listable(arg.locale)
    /\ Len(returned) = Cardinality(listable(arg.locale))
    /\ arg.locale = DEFAULT_LOCALE =>
         \A i \in 1..Len(returned) :
           \A l \in Locales \ {DEFAULT_LOCALE} : ~StartsWith(returned[i], docsRoot(l) \o "/")

\* The listing of the default locale on a tree that holds a readme in mixed
\* case and a translation.
C22_Witness ==
  /\ op = "listDocFiles"
  /\ arg.locale = DEFAULT_LOCALE
  /\ Files = {"docs/guide.md", "docs/x/ReadMe.MDX", "docs/i18n/zh-CN/guide.md"}
  /\ returned = <<"docs/guide.md">>

\* C23: with CHANGELOG.md in place, getDoc(L, ["changelog"]) returns the
\* text of that file for every locale L, whether or not L's content root
\* holds a changelog file of its own: as it is for the default locale,
\* behind L's banner and a rule for any other locale.
C23_ChangelogFromRootFile ==
  (op = "getDoc" /\ arg.slug = <<"changelog">> /\ isFile(Files, "CHANGELOG.md")) =>
    IF arg.locale = DEFAULT_LOCALE
    THEN returned[1].content = sourceOf(fs["CHANGELOG.md"])
    ELSE /\ getLocaleWarning(arg.locale) # None
         /\ returned[1].content =
              getLocaleWarning(arg.locale)[1] \o "\n\n---\n\n" \o sourceOf(fs["CHANGELOG.md"])

\* The changelog of zh on a tree where zh has a changelog file of its own.
C23_Witness ==
  /\ op = "getDoc"
  /\ arg = [locale |-> "zh", slug |-> <<"changelog">>]
  /\ Files = {"docs/guide.md", "CHANGELOG.md", "docs/i18n/zh-CN/changelog.md"}
  /\ returned[1].content = getLocaleWarning("zh")[1] \o "\n\n---\n\n# Changes\n## 1.0"

\* C27: every slug getAllDocSlugs(L) returns resolves: getDoc(L, s) returns
\* a document, neither null nor an error, and the file it reads is a listed
\* file of L whose slug is s.  The locales looked at are those whose files
\* all have a frontmatter that can be parsed.
C27_ListedSlugResolves ==
  (/\ op = "getAllDocSlugs"
   /\ isDirectory(Files, docsRoot(arg.locale))
   /\ malformedFiles(arg.locale) = {}) =>
    \A i \in 1..Len(returned) :
      /\ getDoc(fs, arg.locale, returned[i]) # None
      /\ getDoc(fs, arg.locale, returned[i]) # Thrown
      /\ docFilePath(fs, arg.locale, returned[i], returned[i] = <<"changelog">>)[1]
           \in listedAs(arg.locale, returned[i])

\* slugFromFile dropped a trailing "index" for the file.
indexDropped(locale, f) ==
  slugFromFileKeepIndex(docsRoot(locale), f) # slugFromFile(docsRoot(locale), f)

\* The directory of the file, as a path from the content root.
realDir(locale, f) == posixDirname("/" \o pathRelative(docsRoot(locale), f))

\* C29: for every listed file, isIndex in its DocMeta and in the DocData
\* getDoc reads from it is true exactly when slugFromFile dropped a trailing
\* "index" for the file, and the directory the link rewriter resolves
\* against, computed from slug and isIndex, is the directory of the file.
C29_IsIndexIffIndexDropped ==
  /\ (op = "getDocMetaList" /\ ~metaListThrows(fs, arg.listing)) =>
       \A i \in 1..Len(returned) :
         /\ returned[i].isIndex <=> indexDropped(arg.locale, arg.listing[i])
         /\ currentDirOf([slug |-> returned[i].slug, isIndex |-> returned[i].isIndex])
              = realDir(arg.locale, arg.listing[i])
  /\ (op = "getDoc" /\ arg.slug # <<"changelog">> /\ docIsRead(arg.locale, arg.slug)) =>
       \A f \in listedAs(arg.locale, arg.slug) :
         f = resolveDocPath(fs, arg.locale, arg.slug)[1] =>
           /\ returned[1].isIndex <=> indexDropped(arg.locale, f)
           /\ currentDirOf([slug |-> returned[1].slug, isIndex |-> returned[1].isIndex])
                = realDir(arg.locale, f)

\* C28: when every locale has its content root, generateStaticParams holds
\* for every locale L other than the default one the pair (L, s) for every
\* slug s of a listed file of the default locale and of L, so a document of
\* the default locale has a page under L with or without a translation.
C28_PagesForDefaultSlugs ==
  (op = "generateStaticParams" /\ \A l \in Locales : isDirectory(Files, docsRoot(l))) =>
    \A L \in Locales \ {DEFAULT_LOCALE} :
      \A from \in {L, DEFAULT_LOCALE} :
        \A f \in listable(from) :
          \E i \in 1..Len(returned) :
            returned[i] = [locale |-> L, slug |-> slugFromFile(docsRoot(from), f)]

\* The default locale's guide has a page under zh, which has no translation
\* of it.
C28_Witness ==
  /\ op = "generateStaticParams"
  /\ Files = {"docs/guide.md", "docs/i18n/zh-CN/changelog.md", "docs/i18n/ja-JP/guide.md"}
  /\ \E i \in 1..Len(returned) : returned[i] = [locale |-> "zh", slug |-> <<"guide">>]

\* The level-2 and level-3 headings of a Markdown text, in source order.
tocHeadings(content) ==
  SelectSeq(mdHeadingsFrom(splitLines(content), 1, FALSE, <<>>), LAMBDA h : h.level \in {2, 3})

\* C25: the toc of a document getDoc returns has one item for each level-2
\* and level-3 heading of the returned content (the body after include
\* resolution), in source order and with the heading's level and text, and
\* no other item.
C25_TocListsHeadings ==
  (op = "getDoc" /\ docIsRead(arg.locale, arg.slug)) =>
    /\ Len(returned[1].toc) = Len(tocHeadings(returned[1].content))
    /\ \A i \in 1..Len(returned[1].toc) :
         /\ returned[1].toc[i].level = tocHeadings(returned[1].content)[i].level
         /\ returned[1].toc[i].text = tocHeadings(returned[1].content)[i].text

(***************************************************************************)
(* SpecSlug: slugFromFile applied to the files that can stand for a        *)
(* directory of at most MaxDepth segments below a content root.            *)
(***************************************************************************)
MaxDepth == 2

SlugSegments == {"a", "b", "index", "v1.md"}

SlugDirs == UNION {[1..n -> SlugSegments] : n \in 0..MaxDepth}

\* The files that stand for directory d below root: its index files and,
\* unless d is the root itself, the files named after it.
slugForms(root, d) ==
  {pathJoin(root, Join(d \o <<"index.md">>, "/")),
   pathJoin(root, Join(d \o <<"index.mdx">>, "/"))}
    \cup (IF d = <<>> THEN {}
          ELSE {pathJoin(root, Join(d, "/")) \o ".md", pathJoin(root, Join(d, "/")) \o ".mdx"})

InitSlug ==
  /\ fs = <<>>
  /\ op = "init"
  /\ arg \in {[root |-> docsRoot(l), filePath |-> f] :
                l \in Locales, f \in UNION {slugForms(docsRoot(k), d) : k \in Locales, d \in SlugDirs}}
  /\ StartsWith(arg.filePath, arg.root \o "/")
  /\ returned = None

SlugFromFile ==
  /\ op = "init"
  /\ op' = "slugFromFile"
  /\ returned' = slugFromFile(arg.root, arg.filePath)
  /\ UNCHANGED <<fs, arg>>

SpecSlug == InitSlug /\ [][SlugFromFile]_vars

\* C20 (as amended): for a directory path d whose last segment is not
\* "index", slugFromFile yields the segments of d for d/index.md,
\* d/index.mdx, d.md and d.mdx alike; the index file directly under the
\* root yields the empty slug.
C20_SameSlugForAllForms ==
  op = "slugFromFile" =>
    \A d \in SlugDirs :
      (/\ d = <<>> \/ d[Len(d)] # "index"
       /\ arg.filePath \in slugForms(arg.root, d))
        => returned = d

\* C20 as stated: the same for every directory path d.
C20_AsStated ==
  op = "slugFromFile" =>
    \A d \in SlugDirs : arg.filePath \in slugForms(arg.root, d) => returned = d

\* The spec's example: a/b/index.mdx gives ["a", "b"].
C20_Witness ==
  /\ op = "slugFromFile"
  /\ arg = [root |-> "docs/i18n/zh-CN", filePath |-> "docs/i18n/zh-CN/a/b/index.mdx"]
  /\ returned = <<"a", "b">>

(***************************************************************************)
(* SpecInclude: the while loop of processIncludeDirectives, one iteration  *)
(* per step, on files that include themselves and each other.  While the   *)
(* loop runs, returned holds its variables: lastIndex (the position        *)
(* includeRegex.exec resumes from), result and the number of substitution  *)
(* attempts made.                                                          *)
(***************************************************************************)
MaxAttempts == 4

IncludeTrees ==
  LET files == {<<"docs/self.md", "S <!-- INCLUDE self.md --> E">>,
                <<"docs/ping.md", "<!-- INCLUDE pong.md -->|<!-- INCLUDE ping.md -->">>,
                <<"docs/pong.md", "<!-- INCLUDE ping.md -->">>,
                <<"docs/x.md", "X">>}
  IN {[p \in {x[1] : x \in S} |-> File("", "", None, (CHOOSE x \in S : x[1] = p)[2])] :
        S \in SUBSET files}

\* The call: on the body of a file of the tree, or on a text given as the
\* body of docs/guide.md.
InitInclude ==
  /\ fs \in IncludeTrees
  /\ op = "includeLoop"
  /\ arg \in {[content |-> fs[f].content, currentFilePath |-> f] : f \in DOMAIN fs}
              \cup {[content |-> c, currentFilePath |-> "docs/guide.md"] :
                      c \in {"<!-- INCLUDE x.md --> <!-- INCLUDE gone.md --> <!-- INCLUDE self.md -->",
                             "<!-- INCLUDE ping.md -->",
                             "no directive"}}
  /\ returned = [lastIndex |-> 1, result |-> arg.content, attempts |-> 0]

\* One iteration with a regular expression that is not global: exec starts
\* from the beginning of content every time.
includeIterateFromStart(disk, call, locals) ==
  LET at == includeNext(call.content, locals.lastIndex)
      m == includeMatchAt(DropFirst(call.content, at - 1))[1]
  IN [lastIndex |-> 1,
      result |-> includeReplace(disk, locals.result,
                   SubSeq(call.content, at, at + m.length - 1),
                   pathResolve(posixDirname(call.currentFilePath), Trim(m.group))),
      attempts |-> locals.attempts + 1]

\* One iteration of the loop: exec finds the next directive of content (not
\* of result) from lastIndex on and leaves lastIndex behind it; the try
\* block makes the substitution in result.
includeIterate(disk, call, locals) ==
  LET at == includeNext(call.content, locals.lastIndex)
      m == includeMatchAt(DropFirst(call.content, at - 1))[1]
  IN [lastIndex |-> at + m.length,
      result |-> includeReplace(disk, locals.result,
                   SubSeq(call.content, at, at + m.length - 1),
                   pathResolve(posixDirname(call.currentFilePath), Trim(m.group))),
      attempts |-> locals.attempts + 1]

IncludeIteration ==
  /\ op = "includeLoop"
  /\ includeNext(arg.content, returned.lastIndex) # 0
  /\ returned.attempts < MaxAttempts
  /\ returned' = includeIterate(fs, arg, returned)
  /\ UNCHANGED <<fs, op, arg>>

\* exec returns null: the loop ends and result is returned.
IncludeReturn ==
  /\ op = "includeLoop"
  /\ includeNext(arg.content, returned.lastIndex) = 0
  /\ op' = "includeDone"
  /\ returned' = returned.result
  /\ UNCHANGED <<fs, arg>>

\* The call runs to completion: nothing else is scheduled in between.
SpecInclude ==
  /\ InitInclude
  /\ [][IncludeIteration \/ IncludeReturn]_vars
  /\ WF_vars(IncludeIteration \/ IncludeReturn)

\* The directives of the original content the loop has not reached yet.
directivesLeft ==
  Len(directivesFrom(arg.content, returned.lastIndex, posixDirname(arg.currentFilePath)))

\* C30: the loop of processIncludeDirectives ends for every content and
\* every tree, files that include themselves or each other included. While
\* the loop runs, the attempts made and the directives of the original
\* content still ahead add up to the directives of the original content, and
\* every iteration is one more attempt, so every iteration leaves one
\* directive fewer ahead; the loop is never stuck before the last directive,
\* it leaves only when no directive is ahead, and what it returns is what
\* processIncludeDirectives gives.
C30_IncludeLoopTerminates ==
  /\ [](op = "includeLoop" =>
          /\ returned.attempts + directivesLeft
               = Len(directivesFrom(arg.content, 1, posixDirname(arg.currentFilePath)))
          /\ directivesLeft > 0 => returned.attempts < MaxAttempts)
  /\ [](op = "includeDone" =>
          returned = processIncludeDirectives(fs, arg.content, arg.currentFilePath))
  /\ [][op = "includeLoop" =>
          /\ op' = "includeLoop" => returned'.attempts = returned.attempts + 1
          /\ op' = "includeDone" => directivesLeft = 0]_vars

\* The file that includes itself, resolved once.
C30_Witness ==
  /\ op = "includeDone"
  /\ arg = [content |-> "S <!-- INCLUDE self.md --> E", currentFilePath |-> "docs/self.md"]
  /\ returned = "S S <!-- INCLUDE self.md --> E E"

(***************************************************************************)
(* SpecCache: the memoized lookups of docs.ts during one render.  Each of  *)
(* listDocFiles, getAllDocSlugs, getDocMetaList, getDoc and getSidebar is  *)
(* wrapped in cache(): the first call with given arguments runs the        *)
(* function and keeps what it returned or threw, later calls with the same *)
(* arguments get the kept value.  A string argument is the same argument   *)
(* when it is the same string, an array only when it is the same array.    *)
(* The async functions run without a break up to their first await, and    *)
(* only getSidebar has one: it is suspended after its call of              *)
(* getDocMetaList and resumed later, other calls running in between.       *)
(* The files do not change, and readdirSync lists an unchanged directory   *)
(* in the same order every time: arg.order is that order.                  *)
(***************************************************************************)
\* The locales the lookups are made for.
CacheLocales == {"en", "zh"}

\* The slug arrays the callers pass: two arrays with the same segments.
CacheSlugArrays == {[id |-> n, slug |-> <<"a">>] : n \in 1..2}

\* The calls of getDoc: the page asks for both locales with one array,
\* generateMetadata asks with an array of its own (here for the default
\* locale, as it does for a slug under api).
CacheDocCalls ==
  {<<locale, array>> \in CacheLocales \X CacheSlugArrays :
     array.id = 1 \/ locale = DEFAULT_LOCALE}

CacheTrees ==
  LET en == <<"docs/a.md", File("", "", Some(2), "# Ay")>>
      api == <<"docs/api/index.md", File("Api", "", Some(1), "")>>
      zh == <<"docs/i18n/zh-CN/a.md", File("Zh", "", None, "")>>
      tree(S) == [p \in {x[1] : x \in S} |-> (CHOOSE x \in S : x[1] = p)[2]]
  IN {tree({en, api, zh}), tree({en})}

\* A cache that keys every entry by the function alone.
cacheKeyNoArguments(name, locale, array) == <<name, "", <<>>>>

\* The entry of cache() for a call: the function and its arguments (array
\* is <<>> for the functions of a locale alone).
cacheKey(name, locale, array) == <<name, locale, array>>

Pending == [status |-> "pending", value |-> <<>>]
Rejected == [status |-> "rejected", value |-> <<>>]
Resolved(v) == [status |-> "resolved", value |-> v]

memoPut(memo, k, v) == [x \in DOMAIN memo \cup {k} |-> IF x = k THEN v ELSE memo[x]]

\* listDocFiles(locale) through its cache: the memo after the call.
listDocFilesCached(memo, order, locale) ==
  LET k == cacheKey("listDocFiles", locale, <<>>)
  IN IF k \in DOMAIN memo THEN memo
     ELSE memoPut(memo, k, IF order[locale] = Thrown THEN Rejected
                           ELSE Resolved(order[locale]))

\* getAllDocSlugs(locale) through its cache.
getAllDocSlugsCached(memo, order, locale) ==
  LET k == cacheKey("getAllDocSlugs", locale, <<>>)
      listed == listDocFilesCached(memo, order, locale)
      files == listed[cacheKey("listDocFiles", locale, <<>>)]
  IN IF k \in DOMAIN memo THEN memo
     ELSE memoPut(listed, k, IF files.status = "rejected" THEN Rejected
                             ELSE Resolved(getAllDocSlugs(locale, files.value)))

\* getDocMetaList(locale) through its cache.
getDocMetaListCached(disk, memo, order, locale) ==
  LET k == cacheKey("getDocMetaList", locale, <<>>)
      listed == listDocFilesCached(memo, order, locale)
      files == listed[cacheKey("listDocFiles", locale, <<>>)]
  IN IF k \in DOMAIN memo THEN memo
     ELSE memoPut(listed, k,
                  IF files.status = "rejected" THEN Rejected
                  ELSE IF metaListThrows(disk, files.value) THEN Rejected
                  ELSE Resolved(getDocMetaList(disk, locale, files.value)))

\* getSidebar(locale) through its cache, up to its await: the promise kept
\* is pending.
getSidebarCached(disk, memo, order, locale) ==
  LET k == cacheKey("getSidebar", locale, <<>>)
  IN IF k \in DOMAIN memo THEN memo
     ELSE memoPut(getDocMetaListCached(disk, memo, order, locale), k, Pending)

\* getSidebar(locale) from its await to its return: the promise settles.
getSidebarResumed(memo, locale) ==
  LET docs == memo[cacheKey("getDocMetaList", locale, <<>>)]
  IN memoPut(memo, cacheKey("getSidebar", locale, <<>>),
             IF docs.status = "rejected" THEN Rejected
             ELSE Resolved(getSidebar(locale, docs.value)))

\* What getDoc returns or throws, as a settled promise.
getDocSettled(disk, locale, slug) ==
  LET doc == getDoc(disk, locale, slug)
  IN IF doc = Thrown THEN Rejected ELSE Resolved(doc)

\* getDoc(locale, slug) through its cache.
getDocCached(disk, memo, locale, array) ==
  LET k == cacheKey("getDoc", locale, array)
  IN IF k \in DOMAIN memo THEN memo
     ELSE memoPut(memo, k, getDocSettled(disk, locale, array.slug))

\* What a call hands to its caller: the promise of its entry, and whether
\* the entry was there before the call.
Delivered(memo, after, name, locale, array) ==
  [call |-> <<name, locale, array>>,
   promise |-> after[cacheKey(name, locale, array)],
   memoized |-> cacheKey(name, locale, array) \in DOMAIN memo]

InitCache ==
  /\ fs \in CacheTrees
  /\ op = "init"
  /\ \E en \in listDocFiles(Files, "en"), zh \in listDocFiles(Files, "zh") :
       arg = [order |-> [en |-> en, zh |-> zh], memo |-> <<>>]
  /\ returned = None

CallGetAllDocSlugs ==
  \E locale \in CacheLocales :
    LET after == getAllDocSlugsCached(arg.memo, arg.order, locale)
    IN /\ op' = "getAllDocSlugs"
       /\ arg' = [arg EXCEPT !.memo = after]
       /\ returned' = Delivered(arg.memo, after, "getAllDocSlugs", locale, <<>>)
       /\ UNCHANGED fs

CallGetDocMetaList ==
  \E locale \in CacheLocales :
    LET after == getDocMetaListCached(fs, arg.memo, arg.order, locale)
    IN /\ op' = "getDocMetaList"
       /\ arg' = [arg EXCEPT !.memo = after]
       /\ returned' = Delivered(arg.memo, after, "getDocMetaList", locale, <<>>)
       /\ UNCHANGED fs

CallGetSidebar ==
  \E locale \in CacheLocales :
    LET after == getSidebarCached(fs, arg.memo, arg.order, locale)
    IN /\ op' = "getSidebar"
       /\ arg' = [arg EXCEPT !.memo = after]
       /\ returned' = Delivered(arg.memo, after, "getSidebar", locale, <<>>)
       /\ UNCHANGED fs

ResumeGetSidebar ==
  \E locale \in CacheLocales :
    LET k == cacheKey("getSidebar", locale, <<>>)
        after == getSidebarResumed(arg.memo, locale)
    IN /\ k \in DOMAIN arg.memo
       /\ arg.memo[k].status = "pending"
       /\ op' = "getSidebarResumed"
       /\ arg' = [arg EXCEPT !.memo = after]
       /\ returned' = Delivered(arg.memo, after, "getSidebar", locale, <<>>)
       /\ UNCHANGED fs

CallGetDoc ==
  \E call \in CacheDocCalls :
    LET after == getDocCached(fs, arg.memo, call[1], call[2])
    IN /\ op' = "getDoc"
       /\ arg' = [arg EXCEPT !.memo = after]
       /\ returned' = Delivered(arg.memo, after, "getDoc", call[1], call[2])
       /\ UNCHANGED fs

\* DocShell once both sidebars are there: buildNavigationGroups reads them
\* and builds new items.
CallBuildNavigationGroups ==
  \E locale \in CacheLocales, slug \in {<<"api">>} :
    LET items == cacheKey("getSidebar", locale, <<>>)
        defaultItems == cacheKey("getSidebar", DEFAULT_LOCALE, <<>>)
    IN /\ {items, defaultItems} \subseteq DOMAIN arg.memo
       /\ arg.memo[items].status = "resolved"
       /\ arg.memo[defaultItems].status = "resolved"
       /\ op' = "buildNavigationGroups"
       /\ returned' = [call |-> <<"buildNavigationGroups", locale, slug>>,
                       promise |-> Resolved(buildNavigationGroups(locale,
                                      arg.memo[items].value, arg.memo[defaultItems].value,
                                      getUi(locale), slug)),
                       memoized |-> FALSE]
       /\ UNCHANGED <<fs, arg>>

NextCache ==
  \/ CallGetAllDocSlugs
  \/ CallGetDocMetaList
  \/ CallGetSidebar
  \/ ResumeGetSidebar
  \/ CallGetDoc
  \/ CallBuildNavigationGroups

SpecCache == InitCache /\ [][NextCache]_vars

\* What a first call computes when nothing else has run: the function
\* applied to the files as they are listed.
isolated(name, locale, array) ==
  LET listing == arg.order[locale]
      sidebar(l) == getSidebar(l, getDocMetaList(fs, l, arg.order[l]))
  IN CASE name = "listDocFiles" ->
            IF listing = Thrown THEN Rejected ELSE Resolved(listing)
       [] name = "getAllDocSlugs" ->
            IF listing = Thrown THEN Rejected ELSE Resolved(getAllDocSlugs(locale, listing))
       [] name = "getDocMetaList" ->
            IF metaListThrows(fs, listing) THEN Rejected
            ELSE Resolved(getDocMetaList(fs, locale, listing))
       [] name = "getSidebar" ->
            IF metaListThrows(fs, listing) THEN Rejected ELSE Resolved(sidebar(locale))
       [] name = "getDoc" -> getDocSettled(fs, locale, array.slug)
       [] name = "buildNavigationGroups" ->
            Resolved(buildNavigationGroups(locale, sidebar(locale), sidebar(DEFAULT_LOCALE),
                                           getUi(locale), array))

\* The calls that have an entry in the cache.
CachedCalls ==
  {<<name, locale, <<>>>> :
     name \in {"listDocFiles", "getAllDocSlugs", "getDocMetaList", "getSidebar"},
     locale \in CacheLocales}
    \cup {<<"getDoc", call[1], call[2]>> : call \in CacheDocCalls}

====
